---------------------------- MODULE Spec2Model ----------------------------
(***************************************************************************)
(* favlens: the concurrent fetch / normalize / compare pipeline of main()  *)
(* and worker() (src/unnamed/part_000) and the Ollama client it drives     *)
(* (src/v2/pkg/ollama/ollama.go).                                          *)
(*                                                                         *)
(* Strings are sequences of one-character strings, so that the strings     *)
(* package (HasSuffix, Contains, TrimSpace, Split, TrimSuffix) is computed *)
(* character by character.  Image bytes are sequences of integers 0..255.  *)
(***************************************************************************)
EXTENDS Integers, Sequences, FiniteSets, Bags, TLC

(***************************************************************************)
(* Bounds of the model.                                                    *)
(***************************************************************************)
\* Most lines an input file holds in Spec / FairSpec.
MaxLines == 2
\* Most workers configured in Spec / FairSpec (0 is a configuration too).
MaxWorkers == 2
\* Most lines an input file holds in SpecDispatch.
MaxInputLines == 4
\* Most lines a chat response body holds in SpecCompare.
MaxBodyLines == 3
\* Most models the listing holds in SpecModel.
MaxModels == 2
\* Most bytes an image body holds after its first bytes in SpecImage.
MaxImageBytes == 3
\* Most Results the result stream holds in SpecCollect.
MaxResults == 3

(***************************************************************************)
(* The strings package, on sequences of characters.                        *)
(***************************************************************************)
\* unicode.IsSpace for the characters the model uses
IsSpace(c) == c \in {" ", "\t", "\n", "\r"}

\* strings.HasSuffix
HasSuffix(s, suffix) ==
  /\ Len(s) >= Len(suffix)
  /\ SubSeq(s, Len(s) - Len(suffix) + 1, Len(s)) = suffix

\* strings.HasPrefix
HasPrefix(s, prefix) ==
  /\ Len(s) >= Len(prefix)
  /\ SubSeq(s, 1, Len(prefix)) = prefix

\* strings.Contains
Contains(s, substr) ==
  \E i \in 1..(Len(s) - Len(substr) + 1) : SubSeq(s, i, i + Len(substr) - 1) = substr

\* strings.TrimSuffix
TrimSuffix(s, suffix) ==
  IF HasSuffix(s, suffix) THEN SubSeq(s, 1, Len(s) - Len(suffix)) ELSE s

\* strings.TrimSpace
TrimSpace(s) ==
  LET keep == {i \in 1..Len(s) : ~IsSpace(s[i])}
      lo == CHOOSE i \in keep : \A j \in keep : i <= j
      hi == CHOOSE i \in keep : \A j \in keep : j <= i
  IN IF keep = {} THEN <<>> ELSE SubSeq(s, lo, hi)

\* strings.Split(s, sep) for a one-character separator: always at least one piece
RECURSIVE Split(_, _)
Split(s, sep) ==
  LET at == {i \in 1..Len(s) : s[i] = sep}
      first == CHOOSE i \in at : \A j \in at : i <= j
  IN IF at = {} THEN <<s>>
     ELSE <<SubSeq(s, 1, first - 1)>> \o Split(SubSeq(s, first + 1, Len(s)), sep)

\* strings.Builder / string concatenation of a list of strings
RECURSIVE Concat(_)
Concat(ss) == IF ss = <<>> THEN <<>> ELSE Head(ss) \o Concat(Tail(ss))

\* the lines of a text file: the inverse of Split on "\n"
RECURSIVE JoinLines(_)
JoinLines(ls) ==
  IF ls = <<>> THEN <<>>
  ELSE IF Len(ls) = 1 THEN ls[1]
  ELSE ls[1] \o <<"\n">> \o JoinLines(Tail(ls))

\* all sequences over S of length lo..hi
SeqsOf(S, lo, hi) == UNION {[1..n -> S] : n \in lo..hi}

(***************************************************************************)
(* String literals of the source.                                          *)
(***************************************************************************)
LatestSuffix == <<":", "l", "a", "t", "e", "s", "t">>
YesToken == <<"Y", "e", "s">>
FaviconWord == <<"f", "a", "v", "i", "c", "o", "n">>
FaviconIco == <<"f", "a", "v", "i", "c", "o", "n", ".", "i", "c", "o">>
SlashFaviconIco == <<"/">> \o FaviconIco
ImageSuffixes ==
  { <<".", "i", "c", "o">>, <<".", "p", "n", "g">>, <<".", "j", "p", "g">>,
    <<".", "j", "p", "e", "g">>, <<".", "g", "i", "f">>, <<".", "s", "v", "g">> }

\* a nil error
NoErr == [kind |-> "nil"]
\* the err of a step that has not run
Unset == [kind |-> "unset"]


(***************************************************************************)
(* package ollama: CheckModelExists.                                       *)
(* A reply of the host is [kind |-> "connErr"] (DoTimeout failed) or       *)
(* [kind |-> "http", status |-> n, body |-> b].  The body of /api/tags is  *)
(* what json.Unmarshal makes of it: [ok |-> FALSE] when it does not parse, *)
(* else [ok |-> TRUE, models |-> <<name, ...>>].                           *)
(***************************************************************************)
ConnErr == [kind |-> "connErr"]
Http(status, body) == [kind |-> "http", status |-> status, body |-> body]

\* the condition of the if at ollama.go:119-121, as a plausible slip would
\* write it: only the listed name is stripped
NameMatchesListedOnly(name, Model) ==
  \/ name = Model
  \/ HasSuffix(name, LatestSuffix) /\ TrimSuffix(name, LatestSuffix) = Model

\* the condition of the if at ollama.go:119-121
NameMatches(name, Model) ==
  \/ name = Model
  \/ HasSuffix(name, LatestSuffix) /\ TrimSuffix(name, LatestSuffix) = Model
  \/ /\ HasSuffix(Model, LatestSuffix)
     /\ TrimSuffix(Model, LatestSuffix) = TrimSuffix(name, LatestSuffix)

\* the loop of ollama.go:116-128: modelFound after scanning models[i..]
RECURSIVE ModelFound(_, _, _)
ModelFound(models, i, Model) ==
  IF i > Len(models) THEN FALSE
  ELSE IF NameMatches(models[i], Model) THEN TRUE
  ELSE ModelFound(models, i + 1, Model)

\* the error CheckModelExists returns (NoErr for nil)
CheckModelExists(Model, reply) ==
  IF reply.kind = "connErr" THEN [kind |-> "connect"]
  ELSE IF reply.status # 200 THEN [kind |-> "status", code |-> reply.status]
  ELSE IF ~reply.body.ok THEN [kind |-> "parse"]
  ELSE IF ~ModelFound(reply.body.models, 1, Model) THEN [kind |-> "notfound"]
  ELSE NoErr

(***************************************************************************)
(* package ollama: DownloadImageAsBase64.                                  *)
(* image.Decode sniffs the format from the leading bytes; of the bytes      *)
(* after the magic it keeps the pixels, and an image needs at least one.   *)
(***************************************************************************)
PngMagic == <<137, 80>>
IcoMagic == <<0, 0, 1, 0>>
GifMagic == <<71, 73>>
JpegMagic == <<255, 216>>
Formats ==
  { [name |-> "png", magic |-> PngMagic], [name |-> "ico", magic |-> IcoMagic],
    [name |-> "gif", magic |-> GifMagic], [name |-> "jpeg", magic |-> JpegMagic] }

\* a byte of the image proper; the other bytes of a file (metadata, the
\* encoder's own choices) are not part of the decoded image
IsPixel(b) == b < 128

\* image.Decode: [err, format, img]
ImageDecode(data) ==
  LET fits == {f \in Formats : HasPrefix(data, f.magic)}
      f == CHOOSE g \in fits : TRUE
      img == SelectSeq(SubSeq(data, Len(f.magic) + 1, Len(data)), IsPixel)
  IN IF fits = {} \/ img = <<>> THEN [err |-> TRUE, format |-> "", img |-> <<>>]
     ELSE [err |-> FALSE, format |-> f.name, img |-> img]

\* png.Encode of a decoded image
PngEncode(img) == PngMagic \o img

\* one group of base64.StdEncoding: sextets 0..63, and 64 for the padding "="
B64Group(b) ==
  IF Len(b) = 1 THEN <<b[1] \div 4, (b[1] % 4) * 16, 64, 64>>
  ELSE IF Len(b) = 2
  THEN <<b[1] \div 4, (b[1] % 4) * 16 + b[2] \div 16, (b[2] % 16) * 4, 64>>
  ELSE <<b[1] \div 4, (b[1] % 4) * 16 + b[2] \div 16,
         (b[2] % 16) * 4 + b[3] \div 64, b[3] % 64>>

\* base64.StdEncoding.EncodeToString
RECURSIVE Base64(_)
Base64(bytes) ==
  IF bytes = <<>> THEN <<>>
  ELSE IF Len(bytes) <= 3 THEN B64Group(bytes)
  ELSE B64Group(SubSeq(bytes, 1, 3)) \o Base64(SubSeq(bytes, 4, Len(bytes)))

\* every decoded image is encoded again, a PNG too
DownloadAlwaysReencode(reply) ==
  IF reply.kind = "connErr" THEN [b64 |-> <<>>, err |-> [kind |-> "fetch"]]
  ELSE IF reply.status # 200
  THEN [b64 |-> <<>>, err |-> [kind |-> "status", code |-> reply.status]]
  ELSE LET d == ImageDecode(reply.body)
       IN IF d.err THEN [b64 |-> <<>>, err |-> [kind |-> "decode"]]
          ELSE [b64 |-> Base64(PngEncode(d.img)), err |-> NoErr]

\* DownloadImageAsBase64: [b64, err]
DownloadImageAsBase64(reply) ==
  IF reply.kind = "connErr" THEN [b64 |-> <<>>, err |-> [kind |-> "fetch"]]
  ELSE IF reply.status # 200
  THEN [b64 |-> <<>>, err |-> [kind |-> "status", code |-> reply.status]]
  ELSE LET d == ImageDecode(reply.body)
       IN IF d.err THEN [b64 |-> <<>>, err |-> [kind |-> "decode"]]
          ELSE IF d.format = "png" THEN [b64 |-> Base64(reply.body), err |-> NoErr]
          ELSE [b64 |-> Base64(PngEncode(d.img)), err |-> NoErr]

(***************************************************************************)
(* package ollama: CompareFaviconsChatAPI.                                 *)
(* The body of the /api/chat reply is its list of lines (strings.Split on  *)
(* "\n", so at least one).  A line is what TrimSpace and json.Unmarshal    *)
(* into a map[string]any make of it:                                       *)
(*   [txt |-> "blank"]              only white space                       *)
(*   [txt |-> "garbage"]            Unmarshal returns an error             *)
(*   [txt |-> "json", chunk |-> m]  the map m, from keys to JSON values    *)
(* A JSON value carries its dynamic type, which the type assertions of     *)
(* the source test.                                                        *)
(***************************************************************************)
JStr(s) == [t |-> "string", s |-> s]
JBool(b) == [t |-> "bool", b |-> b]
JNum(n) == [t |-> "number", n |-> n]
JObj(m) == [t |-> "object", m |-> m]
BlankLine == [txt |-> "blank"]
GarbageLine == [txt |-> "garbage"]
JsonLine(m) == [txt |-> "json", chunk |-> m]
\* the empty map (the line "null", or "{}")
EmptyMap == [k \in {} |-> JNum(0)]

\* ollama.go:272-276: the text a parsed chunk contributes
ChunkContent(chunk) ==
  IF "message" \in DOMAIN chunk /\ chunk["message"].t = "object"
  THEN LET msg == chunk["message"].m
       IN IF "content" \in DOMAIN msg /\ msg["content"].t = "string"
          THEN msg["content"].s ELSE <<>>
  ELSE <<>>

\* ollama.go:277: a done field of any other type than bool true breaks too
ChunkDoneAnyValue(chunk) == "done" \in DOMAIN chunk

\* ollama.go:277: done, ok := chunk["done"].(bool); ok && done
ChunkDone(chunk) ==
  "done" \in DOMAIN chunk /\ chunk["done"].t = "bool" /\ chunk["done"].b

\* the loop of ollama.go:260-283 from line i on, with fullText and the set of
\* lines handed to json.Unmarshal so far: [text, parsed, broke]
RECURSIVE ScanLines(_, _, _, _)
ScanLines(lines, i, fullText, parsed) ==
  IF i > Len(lines) THEN [text |-> fullText, parsed |-> parsed, broke |-> FALSE]
  ELSE IF lines[i].txt = "blank" THEN ScanLines(lines, i + 1, fullText, parsed)
  ELSE IF lines[i].txt = "garbage"
  THEN ScanLines(lines, i + 1, fullText, parsed \cup {i})
  ELSE LET text == fullText \o ChunkContent(lines[i].chunk)
       IN IF ChunkDone(lines[i].chunk)
          THEN [text |-> text, parsed |-> parsed \cup {i}, broke |-> TRUE]
          ELSE ScanLines(lines, i + 1, text, parsed \cup {i})

\* ollama.go:290 with the comparison folded to lower case on the answer side
ClassifyAnyCase(answer) ==
  \/ Contains(answer, YesToken)
  \/ Contains(answer, <<"y", "e", "s">>)

\* ollama.go:290: match := strings.Contains(answer, "Yes")
Classify(answer) == Contains(answer, YesToken)

\* a body error on a line that does not parse, instead of the continue
CompareStrict(reply) ==
  IF reply.kind = "connErr"
  THEN [match |-> FALSE, err |-> [kind |-> "compare"], answer |-> <<>>, parsed |-> {}]
  ELSE LET r == ScanLines(reply.body, 1, <<>>, {})
       IN IF \E i \in r.parsed : reply.body[i].txt = "garbage"
          THEN [match |-> FALSE, err |-> [kind |-> "compare"], answer |-> r.text,
                parsed |-> r.parsed]
          ELSE [match |-> Classify(r.text), err |-> NoErr, answer |-> r.text,
                parsed |-> r.parsed]

\* a reply with a status other than 200 is an error
CompareChecksStatus(reply) ==
  IF reply.kind = "connErr" \/ reply.status # 200
  THEN [match |-> FALSE, err |-> [kind |-> "compare"], answer |-> <<>>, parsed |-> {}]
  ELSE LET r == ScanLines(reply.body, 1, <<>>, {})
       IN [match |-> Classify(r.text), err |-> NoErr, answer |-> r.text,
           parsed |-> r.parsed]

\* a request that fails is reported as a match together with its error
CompareMatchOnError(reply) ==
  IF reply.kind = "connErr"
  THEN [match |-> TRUE, err |-> [kind |-> "compare"], answer |-> <<>>, parsed |-> {}]
  ELSE LET r == ScanLines(reply.body, 1, <<>>, {})
       IN [match |-> Classify(r.text), err |-> NoErr, answer |-> r.text,
           parsed |-> r.parsed]

\* CompareFaviconsChatAPI: [match, err], with the answer it classified and the
\* lines it parsed.  The status of the reply is never read.
CompareFaviconsChatAPI(reply) ==
  IF reply.kind = "connErr"
  THEN [match |-> FALSE, err |-> [kind |-> "compare"], answer |-> <<>>, parsed |-> {}]
  ELSE LET r == ScanLines(reply.body, 1, <<>>, {})
       IN [match |-> Classify(r.text), err |-> NoErr, answer |-> r.text,
           parsed |-> r.parsed]

(***************************************************************************)
(* package args.                                                           *)
(***************************************************************************)
\* Arguments.IsValid
IsValid(a) == a.BaseURL # <<>> /\ a.FilePath # <<>> /\ a.Model # <<>>

(***************************************************************************)
(* main: the favicon heuristic of the dispatch loop.                       *)
(***************************************************************************)
\* part_000:335-343 without the strings.Contains(url, "favicon") test
CandidateURLSuffixOnly(url) ==
  IF \A x \in ImageSuffixes : ~HasSuffix(url, x)
  THEN IF HasSuffix(url, <<"/">>) THEN url \o FaviconIco ELSE url \o SlashFaviconIco
  ELSE url

\* part_000:335-343: the URL that is sent for a trimmed, non-empty line
CandidateURL(url) ==
  IF (\A x \in ImageSuffixes : ~HasSuffix(url, x)) /\ ~Contains(url, FaviconWord)
  THEN IF HasSuffix(url, <<"/">>) THEN url \o FaviconIco ELSE url \o SlashFaviconIco
  ELSE url

(***************************************************************************)
(* The state of a run.                                                     *)
(***************************************************************************)
VARIABLES
  args,          \* the Arguments record NewArguments returns
  fs,            \* what os.ReadFile(args.FilePath) will return
  mainPc,        \* where main is
  exitCode,      \* -1 while the process runs, then its exit status
  errs,          \* the err of each precondition step, Unset before it ran
  baseIcon,      \* main's baseIcon
  lines,         \* main's lines
  chanCap,       \* the capacity of jobs and results
  jobs,          \* the jobs channel's buffer
  jobsClosed,    \* close(jobs) was called
  results,       \* the results channel's buffer
  resultsClosed, \* close(results) was called
  wg,            \* the WaitGroup counter
  spawned,       \* the i of the loop that starts the workers
  lineIdx,       \* the position of the dispatch loop in lines
  jobCount,      \* main's jobCount
  outFile,       \* main's outFile: [open, written]
  matchCount,    \* main's matchCount
  errorCount,    \* main's errorCount
  stdout,        \* the URLs fmt.Println wrote
  noise,         \* the kinds of other text written: banner, usage, info, fatal, summary
  wpc,           \* where each worker goroutine is
  wjob,          \* each worker's job.URL
  wicon,         \* each worker's targetIcon
  closerPc,      \* where the goroutine of part_000:358-364 is
  sent,          \* history: the URLs sent on jobs, in order
  emitted,       \* history: the Results sent on results, in order
  did,           \* history: how many model checks, image fetches, comparisons,
                 \* and how many milliseconds of time.Sleep
  probe          \* the input and output of a library call checked on its own

vars ==
  << args, fs, mainPc, exitCode, errs, baseIcon, lines, chanCap, jobs, jobsClosed,
     results, resultsClosed, wg, spawned, lineIdx, jobCount, outFile, matchCount,
     errorCount, stdout, noise, wpc, wjob, wicon, closerPc, sent, emitted, did,
     probe >>

\* the variables of main's own frame
mainVars ==
  << mainPc, exitCode, errs, baseIcon, lines, chanCap, spawned, lineIdx, jobCount,
     outFile, matchCount, errorCount, stdout, noise >>
\* the variables of the worker goroutines' frames
workerVars == << wpc, wjob, wicon >>
\* the two channels and the WaitGroup
chanVars == << jobs, jobsClosed, results, resultsClosed, wg >>

WorkerIds == 0..(MaxWorkers - 1)

(***************************************************************************)
(* Inputs.                                                                 *)
(***************************************************************************)
BaseRef == <<"r", ".", "i", "c", "o">>
UrlFile == <<"u">>
ModelM == <<"m">>
OutPath == <<"o">>

PngBytes == PngMagic \o <<7, 9>>
IcoBytes == IcoMagic \o <<7>>
GarbageBytes == <<1, 2, 3>>

\* replies of the host to GET /api/tags
TagsReplies ==
  { ConnErr, Http(500, [ok |-> FALSE]), Http(200, [ok |-> FALSE]),
    Http(200, [ok |-> TRUE, models |-> <<ModelM \o LatestSuffix>>]),
    Http(200, [ok |-> TRUE, models |-> << <<"x">> >>]) }

\* replies to the GET of the reference image
BaseReplies ==
  { ConnErr, Http(404, <<>>), Http(200, GarbageBytes), Http(200, IcoBytes) }

\* replies to the GET of a candidate image
CandidateReplies ==
  { ConnErr, Http(404, <<>>), Http(200, GarbageBytes), Http(200, PngBytes) }

ContentLine(s) == JsonLine([k \in {"message"} |-> JObj([c \in {"content"} |-> JStr(s)])])
DoneLine == JsonLine([k \in {"done"} |-> JBool(TRUE)])

\* replies of the host to POST /api/chat
ChatReplies ==
  { ConnErr,
    Http(200, <<ContentLine(<<"Y", "e">>), GarbageLine, ContentLine(<<"s">>), DoneLine>>),
    Http(200, <<ContentLine(<<"N", "o">>), DoneLine>>),
    Http(500, <<GarbageLine>>) }

\* lines of the input file in Spec
MainLines == { <<"a", ".", "c", "o", "m">>, <<>>, <<"b", "/">> }

\* what reading the input file gives in Spec: an error, or its content
MainFiles ==
  {[err |-> TRUE, content |-> <<>>]} \cup
  {[err |-> FALSE, content |-> JoinLines(ls)] : ls \in SeqsOf(MainLines, 0, MaxLines)}

\* the default flags with a valid base, file and model
DefaultArgs ==
  [ BaseURL |-> BaseRef, FilePath |-> UrlFile, Model |-> ModelM, Workers |-> 1,
    Silent |-> FALSE, Output |-> <<>>, DelayMs |-> 0 ]

\* the argument records of Spec: each worker count with the default flags and
\* with -delay, one worker with -silent and with -o, the records that lack
\* a required flag, one of them with -silent, a negative worker count, and no
\* worker with -o
MainArgs ==
  UNION { { [DefaultArgs EXCEPT !.Workers = n],
            [DefaultArgs EXCEPT !.Workers = n, !.DelayMs = 5] } : n \in 0..MaxWorkers }
  \cup { [DefaultArgs EXCEPT !.Silent = TRUE], [DefaultArgs EXCEPT !.Output = OutPath] }
  \cup { [DefaultArgs EXCEPT !.BaseURL = <<>>], [DefaultArgs EXCEPT !.FilePath = <<>>],
         [DefaultArgs EXCEPT !.Model = <<>>],
         [DefaultArgs EXCEPT !.BaseURL = <<>>, !.Silent = TRUE] }
  \cup { [DefaultArgs EXCEPT !.Workers = -1],
         [DefaultArgs EXCEPT !.Workers = 0, !.Output = OutPath] }

(***************************************************************************)
(* Init: the process has started, nothing has run.                         *)
(***************************************************************************)
InitFrame ==
  /\ exitCode = -1
  /\ errs = [model |-> Unset, base |-> Unset, file |-> Unset, out |-> Unset]
  /\ baseIcon = <<>>
  /\ lines = <<>>
  /\ chanCap = 0
  /\ jobs = <<>>
  /\ jobsClosed = FALSE
  /\ results = <<>>
  /\ resultsClosed = FALSE
  /\ wg = 0
  /\ spawned = 0
  /\ lineIdx = 1
  /\ jobCount = 0
  /\ outFile = [open |-> FALSE, written |-> <<>>]
  /\ matchCount = 0
  /\ errorCount = 0
  /\ stdout = <<>>
  /\ noise = {}
  /\ wpc = [w \in WorkerIds |-> "none"]
  /\ wjob = [w \in WorkerIds |-> <<>>]
  /\ wicon = [w \in WorkerIds |-> <<>>]
  /\ closerPc = "none"
  /\ sent = <<>>
  /\ emitted = <<>>
  /\ did = [check |-> 0, fetch |-> 0, compare |-> 0, slept |-> 0]

NoProbe == [op |-> "none"]

Init ==
  /\ args \in MainArgs
  /\ fs \in MainFiles
  /\ probe = NoProbe
  /\ mainPc = "start"
  /\ InitFrame

\* the process has neither exited nor returned from main
Alive == mainPc \notin {"exit", "done"}

(***************************************************************************)
(* main, part_000:228-415.                                                 *)
(***************************************************************************)
\* ollama.go:366-378: PrintBanner writes the banner and the tagline
Banner == {"banner"}

\* part_000:239-240 and the tests of args.Silent around every log call: what
\* the logger has written after a call that writes text of the given kinds
Log(kinds) == IF args.Silent THEN noise ELSE noise \cup kinds

\* os.Exit(1), directly or through gologger.Fatal
Exit1 == mainPc' = "exit" /\ exitCode' = 1

\* part_000:229-260: banner, arguments, IsValid, logger, the opening log lines
Start ==
  /\ mainPc = "start"
  /\ noise' = Banner \cup (IF ~IsValid(args) THEN {"usage"} ELSE Log({"info"}))
  /\ IF ~IsValid(args) THEN Exit1 ELSE mainPc' = "check" /\ UNCHANGED exitCode
  /\ UNCHANGED << args, fs, errs, baseIcon, lines, chanCap, spawned, lineIdx, jobCount,
                  outFile, matchCount, errorCount, stdout, workerVars, chanVars,
                  closerPc, sent, emitted, did, probe >>

\* the model check's failure is logged and the run goes on
CheckModelNoExit ==
  /\ mainPc = "check"
  /\ noise' = Log({"info"})
  /\ \E reply \in TagsReplies :
       /\ errs' = [errs EXCEPT !.model = CheckModelExists(args.Model, reply)]
       /\ did' = [did EXCEPT !.check = @ + 1]
       /\ mainPc' = "base"
  /\ UNCHANGED << args, fs, exitCode, baseIcon, lines, chanCap, spawned, lineIdx,
                  jobCount, outFile, matchCount, errorCount, stdout, workerVars,
                  chanVars, closerPc, sent, emitted, probe >>

\* part_000:265-277: the model check, fatal on failure
CheckModel ==
  /\ mainPc = "check"
  /\ \E reply \in TagsReplies :
       LET e == CheckModelExists(args.Model, reply)
       IN /\ errs' = [errs EXCEPT !.model = e]
          /\ did' = [did EXCEPT !.check = @ + 1]
          /\ noise' = Log(IF e # NoErr THEN {"info", "fatal"} ELSE {"info"})
          /\ IF e # NoErr THEN Exit1 ELSE mainPc' = "base" /\ UNCHANGED exitCode
  /\ UNCHANGED << args, fs, baseIcon, lines, chanCap, spawned, lineIdx, jobCount,
                  outFile, matchCount, errorCount, stdout, workerVars, chanVars,
                  closerPc, sent, emitted, probe >>

\* part_000:279-293: the reference image, fatal on failure
DownloadBase ==
  /\ mainPc = "base"
  /\ \E reply \in BaseReplies :
       LET r == DownloadImageAsBase64(reply)
       IN /\ errs' = [errs EXCEPT !.base = r.err]
          /\ baseIcon' = r.b64
          /\ did' = [did EXCEPT !.fetch = @ + 1]
          /\ noise' = Log(IF r.err # NoErr THEN {"info", "fatal"} ELSE {"info"})
          /\ IF r.err # NoErr THEN Exit1 ELSE mainPc' = "read" /\ UNCHANGED exitCode
  /\ UNCHANGED << args, fs, lines, chanCap, spawned, lineIdx, jobCount, outFile,
                  matchCount, errorCount, stdout, workerVars, chanVars,
                  closerPc, sent, emitted, probe >>

\* the two channels are made without a buffer
ReadFileUnbuffered ==
  /\ mainPc = "read"
  /\ noise' = Log(IF fs.err THEN {"info", "fatal"} ELSE {"info"})
  /\ IF fs.err
     THEN /\ errs' = [errs EXCEPT !.file = [kind |-> "read"]]
          /\ Exit1
          /\ UNCHANGED << lines, chanCap >>
     ELSE /\ errs' = [errs EXCEPT !.file = NoErr]
          /\ lines' = Split(TrimSpace(fs.content), "\n")
          /\ chanCap' = 0
          /\ mainPc' = "spawn"
          /\ UNCHANGED exitCode
  /\ UNCHANGED << args, fs, baseIcon, spawned, lineIdx, jobCount, outFile, matchCount,
                  errorCount, stdout, workerVars, chanVars, closerPc, sent,
                  emitted, did, probe >>

\* part_000:295-319: read the file, split it, make the two channels
ReadFile ==
  /\ mainPc = "read"
  /\ noise' = Log(IF fs.err THEN {"info", "fatal"} ELSE {"info"})
  /\ IF fs.err
     THEN /\ errs' = [errs EXCEPT !.file = [kind |-> "read"]]
          /\ Exit1
          /\ UNCHANGED << lines, chanCap >>
     ELSE /\ errs' = [errs EXCEPT !.file = NoErr]
          /\ lines' = Split(TrimSpace(fs.content), "\n")
          /\ chanCap' = Len(lines')
          /\ mainPc' = "spawn"
          /\ UNCHANGED exitCode
  /\ UNCHANGED << args, fs, baseIcon, spawned, lineIdx, jobCount, outFile, matchCount,
                  errorCount, stdout, workerVars, chanVars, closerPc, sent,
                  emitted, did, probe >>

\* a worker count below 1 is taken as 1
StartWorkerAtLeastOne ==
  /\ mainPc = "spawn"
  /\ IF spawned < args.Workers \/ spawned < 1
     THEN /\ wg' = wg + 1
          /\ wpc' = [wpc EXCEPT ![spawned] = "recv"]
          /\ spawned' = spawned + 1
          /\ UNCHANGED mainPc
     ELSE /\ mainPc' = "send"
          /\ UNCHANGED << wg, wpc, spawned >>
  /\ UNCHANGED << args, fs, exitCode, errs, baseIcon, lines, chanCap, lineIdx, jobCount,
                  outFile, matchCount, errorCount, stdout, noise, wjob, wicon,
                  jobs, jobsClosed, results, resultsClosed, closerPc, sent, emitted,
                  did, probe >>

\* a worker is started without wg.Add(1)
StartWorkerNoAdd ==
  /\ mainPc = "spawn"
  /\ IF spawned < args.Workers
     THEN /\ wg' = wg
          /\ wpc' = [wpc EXCEPT ![spawned] = "recv"]
          /\ spawned' = spawned + 1
          /\ UNCHANGED mainPc
     ELSE /\ mainPc' = "send"
          /\ UNCHANGED << wg, wpc, spawned >>
  /\ UNCHANGED << args, fs, exitCode, errs, baseIcon, lines, chanCap, lineIdx, jobCount,
                  outFile, matchCount, errorCount, stdout, noise, wjob, wicon,
                  jobs, jobsClosed, results, resultsClosed, closerPc, sent, emitted,
                  did, probe >>

\* part_000:320-327: one turn of the loop that starts the workers, or its end
StartWorker ==
  /\ mainPc = "spawn"
  /\ IF spawned < args.Workers
     THEN /\ wg' = wg + 1
          /\ wpc' = [wpc EXCEPT ![spawned] = "recv"]
          /\ spawned' = spawned + 1
          /\ UNCHANGED mainPc
     ELSE /\ mainPc' = "send"
          /\ UNCHANGED << wg, wpc, spawned >>
  /\ UNCHANGED << args, fs, exitCode, errs, baseIcon, lines, chanCap, lineIdx, jobCount,
                  outFile, matchCount, errorCount, stdout, noise, wjob, wicon,
                  jobs, jobsClosed, results, resultsClosed, closerPc, sent, emitted,
                  did, probe >>

\* part_000:328-351: one turn of the dispatch loop
SendJob ==
  /\ mainPc = "send"
  /\ lineIdx <= Len(lines)
  /\ LET url == TrimSpace(lines[lineIdx])
     IN IF url = <<>>
        THEN UNCHANGED << jobs, sent, jobCount >>
        ELSE /\ Len(jobs) < chanCap
             /\ jobs' = Append(jobs, [URL |-> CandidateURL(url)])
             /\ sent' = Append(sent, CandidateURL(url))
             /\ jobCount' = jobCount + 1
  /\ lineIdx' = lineIdx + 1
  /\ UNCHANGED << args, fs, mainPc, exitCode, errs, baseIcon, lines, chanCap, spawned,
                  outFile, matchCount, errorCount, stdout, noise, workerVars,
                  jobsClosed, results, resultsClosed, wg, closerPc, emitted, did,
                  probe >>

\* part_000:352-364: close(jobs) after the loop, and the go statement of the
\* goroutine that waits for the workers
CloseJobs ==
  /\ mainPc = "send"
  /\ lineIdx > Len(lines)
  /\ jobsClosed' = TRUE
  /\ noise' = Log({"info"})
  /\ closerPc' = "wait"
  /\ mainPc' = "outfile"
  /\ UNCHANGED << args, fs, exitCode, errs, baseIcon, lines, chanCap, spawned, lineIdx,
                  jobCount, outFile, matchCount, errorCount, stdout, workerVars,
                  jobs, results, resultsClosed, wg, sent, emitted, did, probe >>

\* part_000:366-384: the output file, fatal when it cannot be created
CreateOutFile ==
  /\ mainPc = "outfile"
  /\ IF args.Output = <<>>
     THEN /\ mainPc' = "collect"
          /\ UNCHANGED << exitCode, errs, outFile, noise >>
     ELSE \E created \in BOOLEAN :
            IF created
            THEN /\ outFile' = [open |-> TRUE, written |-> <<>>]
                 /\ errs' = [errs EXCEPT !.out = NoErr]
                 /\ mainPc' = "collect"
                 /\ noise' = Log({"info"})
                 /\ UNCHANGED exitCode
            ELSE /\ errs' = [errs EXCEPT !.out = [kind |-> "create"]]
                 /\ Exit1
                 /\ noise' = Log({"fatal"})
                 /\ UNCHANGED outFile
  /\ UNCHANGED << args, fs, baseIcon, lines, chanCap, spawned, lineIdx, jobCount,
                  matchCount, errorCount, stdout, workerVars, chanVars,
                  closerPc, sent, emitted, did, probe >>

\* a matched Result is counted but its URL is kept back, not printed
CollectNoPrint ==
  /\ mainPc = "collect"
  /\ results # <<>>
  /\ LET result == Head(results)
     IN /\ results' = Tail(results)
        /\ IF result.Err # NoErr
           THEN /\ errorCount' = errorCount + 1
                /\ UNCHANGED matchCount
           ELSE IF result.Match
           THEN /\ matchCount' = matchCount + 1
                /\ UNCHANGED errorCount
           ELSE UNCHANGED << matchCount, errorCount >>
  /\ UNCHANGED << args, fs, mainPc, exitCode, errs, baseIcon, lines, chanCap, spawned,
                  lineIdx, jobCount, outFile, stdout, noise, workerVars, jobs,
                  jobsClosed, resultsClosed, wg, closerPc, sent, emitted, did, probe >>

\* the match flag is tested before the error
CollectMatchFirst ==
  /\ mainPc = "collect"
  /\ results # <<>>
  /\ LET result == Head(results)
     IN /\ results' = Tail(results)
        /\ IF result.Match
           THEN /\ matchCount' = matchCount + 1
                /\ stdout' = Append(stdout, result.URL)
                /\ outFile' = IF outFile.open
                              THEN [outFile EXCEPT !.written = Append(@, result.URL)]
                              ELSE outFile
                /\ UNCHANGED errorCount
           ELSE IF result.Err # NoErr
           THEN /\ errorCount' = errorCount + 1
                /\ UNCHANGED << matchCount, stdout, outFile >>
           ELSE UNCHANGED << matchCount, errorCount, stdout, outFile >>
  /\ UNCHANGED << args, fs, mainPc, exitCode, errs, baseIcon, lines, chanCap, spawned,
                  lineIdx, jobCount, noise, workerVars, jobs, jobsClosed,
                  resultsClosed, wg, closerPc, sent, emitted, did, probe >>

\* part_000:385-407: one turn of the loop over results
Collect ==
  /\ mainPc = "collect"
  /\ results # <<>>
  /\ LET result == Head(results)
     IN /\ results' = Tail(results)
        /\ IF result.Err # NoErr
           THEN /\ errorCount' = errorCount + 1
                /\ UNCHANGED << matchCount, stdout, outFile >>
           ELSE IF result.Match
           THEN /\ matchCount' = matchCount + 1
                /\ stdout' = Append(stdout, result.URL)
                /\ outFile' = IF outFile.open
                              THEN [outFile EXCEPT !.written = Append(@, result.URL)]
                              ELSE outFile
                /\ UNCHANGED errorCount
           ELSE UNCHANGED << matchCount, errorCount, stdout, outFile >>
  /\ UNCHANGED << args, fs, mainPc, exitCode, errs, baseIcon, lines, chanCap, spawned,
                  lineIdx, jobCount, noise, workerVars, jobs, jobsClosed,
                  resultsClosed, wg, closerPc, sent, emitted, did, probe >>

\* part_000:385 and 409-415: results is closed and drained; the summary; return
Finish ==
  /\ mainPc = "collect"
  /\ results = <<>>
  /\ resultsClosed
  /\ mainPc' = "done"
  /\ exitCode' = 0
  /\ noise' = Log({"summary"})
  /\ UNCHANGED << args, fs, errs, baseIcon, lines, chanCap, spawned, lineIdx, jobCount,
                  outFile, matchCount, errorCount, stdout, workerVars, chanVars,
                  closerPc, sent, emitted, did, probe >>

MainNext ==
  \/ Start \/ CheckModel \/ DownloadBase \/ ReadFile \/ StartWorker \/ SendJob
  \/ CloseJobs \/ CreateOutFile \/ Collect \/ Finish

(***************************************************************************)
(* worker, part_000:188-226.  A request and the send of its Result are one *)
(* step: between the reply and the send the worker touches nothing shared. *)
(***************************************************************************)
\* the receive hands the head of the queue over and leaves it in the queue
DequeueKeepsHead(w) ==
  /\ Alive
  /\ wpc[w] = "recv"
  /\ jobs # <<>>
  /\ wjob' = [wjob EXCEPT ![w] = Head(jobs).URL]
  /\ wpc' = [wpc EXCEPT ![w] = IF args.DelayMs > 0 THEN "delay" ELSE "fetch"]
  /\ UNCHANGED << args, fs, mainVars, wicon, chanVars, closerPc, sent, emitted, did,
                  probe >>

\* the job is fetched as soon as it is received, whatever -delay says
DequeueNoDelay(w) ==
  /\ Alive
  /\ wpc[w] = "recv"
  /\ jobs # <<>>
  /\ wjob' = [wjob EXCEPT ![w] = Head(jobs).URL]
  /\ jobs' = Tail(jobs)
  /\ wpc' = [wpc EXCEPT ![w] = "fetch"]
  /\ UNCHANGED << args, fs, mainVars, wicon, jobsClosed, results, resultsClosed, wg,
                  closerPc, sent, emitted, did, probe >>

\* part_000:196-205: a job is received from jobs
Dequeue(w) ==
  /\ Alive
  /\ wpc[w] = "recv"
  /\ jobs # <<>>
  /\ wjob' = [wjob EXCEPT ![w] = Head(jobs).URL]
  /\ jobs' = Tail(jobs)
  /\ wpc' = [wpc EXCEPT ![w] = IF args.DelayMs > 0 THEN "delay" ELSE "fetch"]
  /\ UNCHANGED << args, fs, mainVars, wicon, jobsClosed, results, resultsClosed, wg,
                  closerPc, sent, emitted, did, probe >>

\* the worker returns as soon as it finds jobs empty, closed or not
WorkerExitOnEmpty(w) ==
  /\ Alive
  /\ wpc[w] = "recv"
  /\ jobs = <<>>
  /\ wpc' = [wpc EXCEPT ![w] = "exited"]
  /\ wg' = wg - 1
  /\ UNCHANGED << args, fs, mainVars, wjob, wicon, jobs, jobsClosed, results,
                  resultsClosed, closerPc, sent, emitted, did, probe >>

\* the worker returns without wg.Done()
WorkerExitNoDone(w) ==
  /\ Alive
  /\ wpc[w] = "recv"
  /\ jobs = <<>>
  /\ jobsClosed
  /\ wpc' = [wpc EXCEPT ![w] = "exited"]
  /\ UNCHANGED << args, fs, mainVars, wjob, wicon, chanVars, closerPc, sent, emitted,
                  did, probe >>

\* part_000:196, 223-226 and 189: jobs is closed and drained; wg.Done()
WorkerExit(w) ==
  /\ Alive
  /\ wpc[w] = "recv"
  /\ jobs = <<>>
  /\ jobsClosed
  /\ wpc' = [wpc EXCEPT ![w] = "exited"]
  /\ wg' = wg - 1
  /\ UNCHANGED << args, fs, mainVars, wjob, wicon, jobs, jobsClosed, results,
                  resultsClosed, closerPc, sent, emitted, did, probe >>

\* part_000:203-205: time.Sleep for DelayMs milliseconds
Sleep(w) ==
  /\ Alive
  /\ wpc[w] = "delay"
  /\ wpc' = [wpc EXCEPT ![w] = "fetch"]
  /\ did' = [did EXCEPT !.slept = @ + args.DelayMs]
  /\ UNCHANGED << args, fs, mainVars, wjob, wicon, chanVars, closerPc, sent, emitted,
                  probe >>

\* part_000:212 and 220: results <- r, then back to the head of the loop
Emit(w, r) ==
  /\ ~resultsClosed
  /\ Len(results) < chanCap
  /\ results' = Append(results, r)
  /\ emitted' = Append(emitted, r)
  /\ wpc' = [wpc EXCEPT ![w] = "recv"]
  /\ wjob' = [wjob EXCEPT ![w] = <<>>]
  /\ wicon' = [wicon EXCEPT ![w] = <<>>]

\* what the candidate's host may answer: any of the replies of the run, or,
\* when the reply under study has been fixed beforehand, that one
FetchReplies == IF probe.op = "fetch" THEN {probe.reply} ELSE CandidateReplies

\* the error of the download is dropped and the candidate is compared anyway
DownloadComparesAnyway(w) ==
  /\ Alive
  /\ wpc[w] = "fetch"
  /\ \E reply \in FetchReplies :
       /\ wicon' = [wicon EXCEPT ![w] = DownloadImageAsBase64(reply).b64]
       /\ wpc' = [wpc EXCEPT ![w] = "compare"]
       /\ UNCHANGED << wjob, results, emitted >>
  /\ did' = [did EXCEPT !.fetch = @ + 1]
  /\ UNCHANGED << args, fs, mainVars, jobs, jobsClosed, resultsClosed, wg, closerPc,
                  sent, probe >>

\* a failed download makes the worker return without a Result
DownloadFatal(w) ==
  /\ Alive
  /\ wpc[w] = "fetch"
  /\ \E reply \in FetchReplies :
       LET r == DownloadImageAsBase64(reply)
       IN IF r.err # NoErr
          THEN /\ wpc' = [wpc EXCEPT ![w] = "exited"]
               /\ wg' = wg - 1
               /\ UNCHANGED << wjob, wicon, results, emitted >>
          ELSE /\ wicon' = [wicon EXCEPT ![w] = r.b64]
               /\ wpc' = [wpc EXCEPT ![w] = "compare"]
               /\ UNCHANGED << wjob, results, emitted, wg >>
  /\ did' = [did EXCEPT !.fetch = @ + 1]
  /\ UNCHANGED << args, fs, mainVars, jobs, jobsClosed, resultsClosed, closerPc, sent,
                  probe >>

\* part_000:207-214: fetch and normalize the candidate; on failure send the
\* Result that carries the error and continue
Download(w) ==
  /\ Alive
  /\ wpc[w] = "fetch"
  /\ \E reply \in FetchReplies :
       LET r == DownloadImageAsBase64(reply)
       IN IF r.err # NoErr
          THEN Emit(w, [URL |-> wjob[w], Match |-> FALSE, Err |-> r.err])
          ELSE /\ wicon' = [wicon EXCEPT ![w] = r.b64]
               /\ wpc' = [wpc EXCEPT ![w] = "compare"]
               /\ UNCHANGED << wjob, results, emitted >>
  /\ did' = [did EXCEPT !.fetch = @ + 1]
  /\ UNCHANGED << args, fs, mainVars, jobs, jobsClosed, resultsClosed, wg, closerPc,
                  sent, probe >>

\* what the inference host may answer: any of the replies of the run, or,
\* when the reply under study has been fixed beforehand, that one
CompareReplies == IF probe.op = "compare" THEN {probe.reply} ELSE ChatReplies

\* a failed comparison sends nothing and the job is fetched again
CompareRetries(w) ==
  /\ Alive
  /\ wpc[w] = "compare"
  /\ \E reply \in CompareReplies :
       LET c == CompareFaviconsChatAPI(reply)
       IN IF c.err # NoErr
          THEN /\ wpc' = [wpc EXCEPT ![w] = "fetch"]
               /\ UNCHANGED << wjob, wicon, results, emitted >>
          ELSE Emit(w, [URL |-> wjob[w], Match |-> c.match, Err |-> c.err])
  /\ did' = [did EXCEPT !.compare = @ + 1]
  /\ UNCHANGED << args, fs, mainVars, jobs, jobsClosed, resultsClosed, wg, closerPc,
                  sent, probe >>

\* part_000:216-220: the comparison request and the send of its Result
Compare(w) ==
  /\ Alive
  /\ wpc[w] = "compare"
  /\ \E reply \in CompareReplies :
       LET c == CompareFaviconsChatAPI(reply)
       IN Emit(w, [URL |-> wjob[w], Match |-> c.match, Err |-> c.err])
  /\ did' = [did EXCEPT !.compare = @ + 1]
  /\ UNCHANGED << args, fs, mainVars, jobs, jobsClosed, resultsClosed, wg, closerPc,
                  sent, probe >>

WorkerNext(w) ==
  \/ Dequeue(w) \/ WorkerExit(w) \/ Sleep(w) \/ Download(w) \/ Compare(w)

(***************************************************************************)
(* The goroutine of part_000:358-364.                                      *)
(***************************************************************************)
\* results is closed once jobs is closed, whatever the workers are doing
CloseResultsEarly ==
  /\ Alive
  /\ closerPc = "wait"
  /\ jobsClosed
  /\ resultsClosed' = TRUE
  /\ noise' = Log({"info"})
  /\ closerPc' = "done"
  /\ UNCHANGED << args, fs, mainPc, exitCode, errs, baseIcon, lines, chanCap, spawned,
                  lineIdx, jobCount, outFile, matchCount, errorCount, stdout, workerVars, jobs, jobsClosed, results, wg, sent,
                  emitted, did, probe >>

\* part_000:359-363: wg.Wait() returns, close(results), the closing log line
CloseResults ==
  /\ Alive
  /\ closerPc = "wait"
  /\ wg = 0
  /\ resultsClosed' = TRUE
  /\ noise' = Log({"info"})
  /\ closerPc' = "done"
  /\ UNCHANGED << args, fs, mainPc, exitCode, errs, baseIcon, lines, chanCap, spawned,
                  lineIdx, jobCount, outFile, matchCount, errorCount, stdout, workerVars, jobs, jobsClosed, results, wg, sent,
                  emitted, did, probe >>

CloserNext == CloseResults

(***************************************************************************)
(* The run.                                                                *)
(***************************************************************************)
Next == MainNext \/ (\E w \in WorkerIds : WorkerNext(w)) \/ CloserNext

Spec == Init /\ [][Next]_vars

\* The Go scheduler runs every runnable goroutine eventually, and every call the
\* goroutines make returns (each request carries the client's timeout).
FairSpec ==
  /\ Spec
  /\ WF_vars(MainNext)
  /\ \A w \in WorkerIds : WF_vars(WorkerNext(w))
  /\ WF_vars(CloserNext)

(***************************************************************************)
(* CheckModelExists on its own: a configured name and a reply of the host. *)
(***************************************************************************)
Gemma4b == <<"g", "e", "m", "m", "a", "3", ":", "4", "b">>
Gemma9b == <<"g", "e", "m", "m", "a", "3", ":", "9", "b">>
Foo == <<"f", "o", "o">>
ModelNames ==
  { Gemma4b, Gemma4b \o LatestSuffix, Gemma9b, Foo, Foo \o LatestSuffix,
    Foo \o LatestSuffix \o LatestSuffix }

TagsBodies ==
  {[ok |-> FALSE]} \cup {[ok |-> TRUE, models |-> ms] : ms \in SeqsOf(ModelNames, 0, MaxModels)}

TagsInputs == {ConnErr} \cup {Http(st, b) : st \in {200, 404}, b \in TagsBodies}

\* no run: the frame of main is never entered
Idle ==
  /\ args = DefaultArgs
  /\ fs = [err |-> TRUE, content |-> <<>>]
  /\ mainPc = "off"
  /\ InitFrame

InitModel ==
  /\ Idle
  /\ \E m \in ModelNames, reply \in TagsInputs :
       probe = [op |-> "CheckModelExists", Model |-> m, reply |-> reply,
                called |-> FALSE, out |-> Unset]

ProbeCheckModel ==
  /\ probe.op = "CheckModelExists"
  /\ ~probe.called
  /\ probe' = [probe EXCEPT !.called = TRUE,
                            !.out = CheckModelExists(probe.Model, probe.reply)]
  /\ UNCHANGED << args, fs, mainVars, workerVars, chanVars, closerPc, sent, emitted, did >>

SpecModel == InitModel /\ [][ProbeCheckModel]_vars

(***************************************************************************)
(* CompareFaviconsChatAPI on its own: a reply of the host to /api/chat.    *)
(***************************************************************************)
ChatLines ==
  { BlankLine, GarbageLine,
    ContentLine(<<"Y", "e">>), ContentLine(<<"s">>), ContentLine(<<"N", "o">>),
    ContentLine(<<"y", "e", "s">>),
    JsonLine([k \in {"message", "done"} |->
                IF k = "done" THEN JBool(TRUE)
                ELSE JObj([c \in {"content"} |-> JStr(<<"s">>)])]),
    DoneLine,
    JsonLine([k \in {"message", "done"} |->
                IF k = "done" THEN JBool(FALSE)
                ELSE JObj([c \in {"content"} |-> JStr(<<"Y", "e", "s">>)])]),
    JsonLine([k \in {"message", "done"} |-> JStr(<<"Y", "e", "s">>)]),
    JsonLine([k \in {"message"} |-> JObj([c \in {"content"} |-> JNum(7)])]),
    JsonLine(EmptyMap) }

ChatInputs ==
  {ConnErr} \cup
  {Http(st, b) : st \in {200, 500}, b \in SeqsOf(ChatLines, 1, MaxBodyLines)}

InitCompare ==
  /\ Idle
  /\ \E reply \in ChatInputs :
       probe = [op |-> "CompareFaviconsChatAPI", reply |-> reply, called |-> FALSE,
                out |-> [match |-> FALSE, err |-> Unset, answer |-> <<>>, parsed |-> {}]]

ProbeCompare ==
  /\ probe.op = "CompareFaviconsChatAPI"
  /\ ~probe.called
  /\ probe' = [probe EXCEPT !.called = TRUE, !.out = CompareFaviconsChatAPI(probe.reply)]
  /\ UNCHANGED << args, fs, mainVars, workerVars, chanVars, closerPc, sent, emitted, did >>

SpecCompare == InitCompare /\ [][ProbeCompare]_vars

(***************************************************************************)
(* DownloadImageAsBase64 on its own: a reply to the GET of an image.       *)
(***************************************************************************)
\* two pixel bytes and one byte that is not a pixel
ImageBytes == {7, 9, 200}

\* how a body begins: one of the four formats, nothing, or something else
ImageHeads == {f.magic : f \in Formats} \cup {<<>>, <<1>>}

ImageBodies == {h \o t : h \in ImageHeads, t \in SeqsOf(ImageBytes, 0, MaxImageBytes)}

ImageInputs == {ConnErr} \cup {Http(st, b) : st \in {200, 404}, b \in ImageBodies}

InitImage ==
  /\ Idle
  /\ \E reply \in ImageInputs :
       probe = [op |-> "DownloadImageAsBase64", reply |-> reply, called |-> FALSE,
                out |-> [b64 |-> <<>>, err |-> Unset]]

ProbeDownload ==
  /\ probe.op = "DownloadImageAsBase64"
  /\ ~probe.called
  /\ probe' = [probe EXCEPT !.called = TRUE, !.out = DownloadImageAsBase64(probe.reply)]
  /\ UNCHANGED << args, fs, mainVars, workerVars, chanVars, closerPc, sent, emitted, did >>

SpecImage == InitImage /\ [][ProbeDownload]_vars

(***************************************************************************)
(* The producer alone, from the read of the input file to close(jobs): the *)
(* URLs it sends do not depend on what the workers do.                     *)
(***************************************************************************)
ACom == <<"a", ".", "c", "o", "m">>
BComSlash == <<"b", ".", "c", "o", "m", "/">>
CLogoPng == <<"c", ".", "c", "o", "m", "/", "l", "o", "g", "o", ".", "p", "n", "g">>
DispatchLines ==
  { ACom, BComSlash, <<>>, CLogoPng,
    <<" ", "\t">> \o ACom \o <<"\r">>,
    <<"d", "/", "f", "a", "v", "i", "c", "o", "n">> }

DispatchFiles ==
  {[err |-> FALSE, content |-> JoinLines(ls)] : ls \in SeqsOf(DispatchLines, 0, MaxInputLines)}

InitDispatch ==
  /\ args \in {[DefaultArgs EXCEPT !.Workers = n] : n \in {1, 2}}
  /\ fs \in DispatchFiles
  /\ probe = NoProbe
  /\ mainPc = "read"
  /\ exitCode = -1
  /\ errs = [model |-> NoErr, base |-> NoErr, file |-> Unset, out |-> Unset]
  /\ baseIcon = Base64(PngEncode(<<7>>))
  /\ lines = <<>>
  /\ chanCap = 0
  /\ jobs = <<>>
  /\ jobsClosed = FALSE
  /\ results = <<>>
  /\ resultsClosed = FALSE
  /\ wg = 0
  /\ spawned = 0
  /\ lineIdx = 1
  /\ jobCount = 0
  /\ outFile = [open |-> FALSE, written |-> <<>>]
  /\ matchCount = 0
  /\ errorCount = 0
  /\ stdout = <<>>
  /\ noise = Banner \cup {"info"}
  /\ wpc = [w \in WorkerIds |-> "none"]
  /\ wjob = [w \in WorkerIds |-> <<>>]
  /\ wicon = [w \in WorkerIds |-> <<>>]
  /\ closerPc = "none"
  /\ sent = <<>>
  /\ emitted = <<>>
  /\ did = [check |-> 1, fetch |-> 1, compare |-> 0, slept |-> 0]

NextDispatch == ReadFile \/ StartWorker \/ SendJob \/ CloseJobs

SpecDispatch == InitDispatch /\ [][NextDispatch]_vars

(***************************************************************************)
(* One worker with one job in hand, about to fetch it, and the reply its   *)
(* host will give: part_000:207-220 over every reply of ImageInputs.       *)
(***************************************************************************)
InitFetch ==
  /\ args = DefaultArgs
  /\ fs = [err |-> FALSE, content |-> ACom]
  /\ \E reply \in ImageInputs : probe = [op |-> "fetch", reply |-> reply]
  /\ mainPc = "send"
  /\ exitCode = -1
  /\ errs = [model |-> NoErr, base |-> NoErr, file |-> NoErr, out |-> Unset]
  /\ baseIcon = Base64(PngEncode(<<7>>))
  /\ lines = << ACom >>
  /\ chanCap = 1
  /\ jobs = <<>>
  /\ jobsClosed = FALSE
  /\ results = <<>>
  /\ resultsClosed = FALSE
  /\ wg = 1
  /\ spawned = 1
  /\ lineIdx = 2
  /\ jobCount = 1
  /\ outFile = [open |-> FALSE, written |-> <<>>]
  /\ matchCount = 0
  /\ errorCount = 0
  /\ stdout = <<>>
  /\ noise = Banner \cup {"info"}
  /\ wpc = [w \in WorkerIds |-> IF w = 0 THEN "fetch" ELSE "none"]
  /\ wjob = [w \in WorkerIds |-> IF w = 0 THEN ACom \o SlashFaviconIco ELSE <<>>]
  /\ wicon = [w \in WorkerIds |-> <<>>]
  /\ closerPc = "none"
  /\ sent = << ACom \o SlashFaviconIco >>
  /\ emitted = <<>>
  /\ did = [check |-> 1, fetch |-> 1, compare |-> 0, slept |-> 0]

NextFetch == Download(0) \/ Compare(0)

SpecFetch == InitFetch /\ [][NextFetch]_vars

(***************************************************************************)
(* The aggregator alone, part_000:382-414, over a closed result stream     *)
(* that holds any Results, also such as no worker builds.                  *)
(***************************************************************************)
AnyResults ==
  { [URL |-> ACom \o SlashFaviconIco, Match |-> m, Err |-> e] :
      m \in BOOLEAN, e \in {NoErr, [kind |-> "compare"]} }

InitCollect ==
  /\ args \in {DefaultArgs, [DefaultArgs EXCEPT !.Output = OutPath]}
  /\ fs = [err |-> FALSE, content |-> ACom]
  /\ probe = NoProbe
  /\ mainPc = "collect"
  /\ exitCode = -1
  /\ errs = [model |-> NoErr, base |-> NoErr, file |-> NoErr,
             out |-> IF args.Output = <<>> THEN Unset ELSE NoErr]
  /\ baseIcon = Base64(PngEncode(<<7>>))
  /\ results \in SeqsOf(AnyResults, 0, MaxResults)
  /\ emitted = results
  /\ sent = [i \in 1..Len(results) |-> results[i].URL]
  /\ jobCount = Len(results)
  /\ lines = [i \in 1..Len(results) |-> ACom]
  /\ chanCap = Len(results)
  /\ lineIdx = Len(results) + 1
  /\ jobs = <<>>
  /\ jobsClosed = TRUE
  /\ resultsClosed = TRUE
  /\ wg = 0
  /\ spawned = 1
  /\ outFile = [open |-> args.Output # <<>>, written |-> <<>>]
  /\ matchCount = 0
  /\ errorCount = 0
  /\ stdout = <<>>
  /\ noise = Banner \cup {"info"}
  /\ wpc = [w \in WorkerIds |-> IF w = 0 THEN "exited" ELSE "none"]
  /\ wjob = [w \in WorkerIds |-> <<>>]
  /\ wicon = [w \in WorkerIds |-> <<>>]
  /\ closerPc = "done"
  /\ did = [check |-> 1, fetch |-> 1, compare |-> 0, slept |-> 0]

NextCollect == Collect \/ Finish

SpecCollect == InitCollect /\ [][NextCollect]_vars

(***************************************************************************)
(* The last job of a run from its comparison to the summary: one worker    *)
(* about to compare, part_000:216-226, the dispatch over, the aggregator   *)
(* at its loop, and the reply of the inference host from ChatInputs.       *)
(***************************************************************************)
InitJudge ==
  /\ args = DefaultArgs
  /\ fs = [err |-> FALSE, content |-> ACom]
  /\ \E reply \in ChatInputs : probe = [op |-> "compare", reply |-> reply]
  /\ mainPc = "collect"
  /\ exitCode = -1
  /\ errs = [model |-> NoErr, base |-> NoErr, file |-> NoErr, out |-> Unset]
  /\ baseIcon = Base64(PngEncode(<<7>>))
  /\ lines = << ACom >>
  /\ chanCap = 1
  /\ jobs = <<>>
  /\ jobsClosed = TRUE
  /\ results = <<>>
  /\ resultsClosed = FALSE
  /\ wg = 1
  /\ spawned = 1
  /\ lineIdx = 2
  /\ jobCount = 1
  /\ outFile = [open |-> FALSE, written |-> <<>>]
  /\ matchCount = 0
  /\ errorCount = 0
  /\ stdout = <<>>
  /\ noise = Banner \cup {"info"}
  /\ wpc = [w \in WorkerIds |-> IF w = 0 THEN "compare" ELSE "none"]
  /\ wjob = [w \in WorkerIds |-> IF w = 0 THEN ACom \o SlashFaviconIco ELSE <<>>]
  /\ wicon = [w \in WorkerIds |-> IF w = 0 THEN Base64(PngBytes) ELSE <<>>]
  /\ closerPc = "wait"
  /\ sent = << ACom \o SlashFaviconIco >>
  /\ emitted = <<>>
  /\ did = [check |-> 1, fetch |-> 2, compare |-> 0, slept |-> 0]

NextJudge == Compare(0) \/ WorkerExit(0) \/ CloseResults \/ Collect \/ Finish

SpecJudge == InitJudge /\ [][NextJudge]_vars

(***************************************************************************)
(* Properties.                                                             *)
(***************************************************************************)
\* the multiset of the elements of a sequence
RECURSIVE BagOfSeq(_)
BagOfSeq(q) == IF q = <<>> THEN EmptyBag ELSE SetToBag({Head(q)}) (+) BagOfSeq(Tail(q))

\* the URLs of a sequence of Results
ResultURLs(rs) == [i \in 1..Len(rs) |-> rs[i].URL]

\* the workers the run was configured with
Configured == {w \in WorkerIds : w < args.Workers}

\* C1: with at least one worker, when the result stream is closed it has carried
\* exactly one Result per dispatched job: as many Results as jobs were sent, and
\* the same URLs with the same multiplicities.
C1_OneResultPerJob ==
  (resultsClosed /\ args.Workers >= 1) =>
    /\ Len(emitted) = jobCount
    /\ Len(sent) = jobCount
    /\ BagOfSeq(ResultURLs(emitted)) = BagOfSeq(sent)

\* two workers, two jobs with different URLs, both Results out, stream closed
C1_Witness ==
  /\ resultsClosed
  /\ args.Workers = 2
  /\ Len(emitted) = 2
  /\ emitted[1].URL # emitted[2].URL
  /\ emitted[1].Err # NoErr
  /\ emitted[2].Match

\* C2: the result stream is closed only after every worker has returned: while
\* it is closed no configured worker is at the receive, in the delay, in the
\* fetch or in the comparison, and none is unstarted.
C2_ClosedAfterWorkers ==
  resultsClosed =>
    /\ \A w \in Configured : wpc[w] = "exited"
    /\ \A w \in WorkerIds \ Configured : wpc[w] = "none"
    /\ wg = 0

\* the stream is closed after two workers ran, one of which found the queue
\* empty while the other was still comparing its last job
C2_Witness ==
  /\ resultsClosed
  /\ args.Workers = 2
  /\ Len(emitted) >= 1
  /\ \A w \in Configured : wpc[w] = "exited"

\* the queue is empty and closed, a worker is still comparing, and the stream
\* is open: the case the claim is about
C2_MidFlight ==
  /\ jobs = <<>>
  /\ jobsClosed
  /\ closerPc = "wait"
  /\ \E w \in Configured : wpc[w] = "compare"
  /\ \E w \in Configured : wpc[w] = "exited"
  /\ ~resultsClosed

\* the candidate list is in hand and at least one worker is configured
C3_Started == mainPc = "spawn" /\ args.Workers >= 1

\* the queue is drained, every worker has returned, the stream is closed and
\* consumed to its last Result, and main has produced its summary
C3_Terminated ==
  /\ mainPc = "done"
  /\ jobs = <<>>
  /\ jobsClosed
  /\ \A w \in Configured : wpc[w] = "exited"
  /\ resultsClosed
  /\ results = <<>>
  /\ Len(emitted) = jobCount

\* os.Create of the -o file failed and main exited with status 1
C3_OutFileFailed == mainPc = "exit" /\ exitCode = 1 /\ errs.out = [kind |-> "create"]

\* C3 as stated: every run that has its candidate list ends with the summary.
C3_AlwaysSummary == C3_Started ~> C3_Terminated

\* C3, amended: under fair scheduling every run that has its candidate list and
\* at least one worker terminates: with the queue drained, the workers gone, the
\* stream closed and consumed and the summary produced, or, when the output
\* file cannot be created, with exit status 1.
C3_Terminates == C3_Started ~> (C3_Terminated \/ C3_OutFileFailed)

\* a finished run of two workers on two jobs
C3_Witness == C3_Terminated /\ args.Workers = 2 /\ jobCount = 2 /\ errorCount = 1

\* C4: a step in which worker w ends a job, by a failed fetch (connection
\* error, status other than 200, undecodable image) or by a comparison (failed
\* or not), sends exactly one Result for that job, with the error when there is
\* one, and takes w back to the receive; it changes no other worker, does not
\* stop main, and leaves the queue and the WaitGroup alone.  And whatever
\* failed, a closed stream has carried one Result per job.
C4_Step(w) ==
  LET failedFetch == wpc[w] = "fetch" /\ wpc'[w] \notin {"fetch", "compare"}
      compared == wpc[w] = "compare" /\ wpc'[w] # "compare"
      r == emitted'[Len(emitted')]
  IN (failedFetch \/ compared) =>
       /\ Len(emitted') = Len(emitted) + 1
       /\ SubSeq(emitted', 1, Len(emitted)) = emitted
       /\ results' = Append(results, r)
       /\ r.URL = wjob[w]
       /\ failedFetch =>
            /\ r.Err.kind \in {"fetch", "status", "decode"}
            /\ r.Err.kind = "status" => r.Err.code = 404
            /\ ~r.Match
       /\ compared => (r.Err = NoErr \/ (r.Err.kind = "compare" /\ ~r.Match))
       /\ wpc'[w] = "recv"
       /\ \A v \in WorkerIds \ {w} : wpc'[v] = wpc[v]
       /\ mainPc' = mainPc
       /\ exitCode' = exitCode
       /\ jobs' = jobs
       /\ wg' = wg

C4_FailureIsLocal ==
  /\ [][\A w \in WorkerIds : C4_Step(w)]_vars
  /\ []((resultsClosed /\ args.Workers >= 1) => Len(emitted) = jobCount)

\* the only worker got a 404 on its first job, and went on to match the second
C4_Witness ==
  /\ args.Workers = 1
  /\ Len(emitted) = 2
  /\ emitted[1].Err = [kind |-> "status", code |-> 404]
  /\ emitted[2].Err = NoErr
  /\ emitted[2].Match

\* every precondition step ran and returned no error
C5_PreconditionsMet ==
  /\ IsValid(args)
  /\ errs.model = NoErr
  /\ errs.base = NoErr
  /\ errs.file = NoErr

\* a worker exists, or a job was dispatched
C5_PoolStarted ==
  \/ \E w \in WorkerIds : wpc[w] # "none"
  \/ wg > 0
  \/ sent # <<>>
  \/ jobs # <<>>

\* C5: a worker exists or a job was dispatched only when the arguments were
\* valid and the model check, the reference image and the read of the input
\* file all succeeded; each step runs only after the one before it succeeded;
\* a failure of any of them leaves the process exited with status 1 and no
\* worker; the model check runs at most once, and has run and succeeded
\* before any image fetch or comparison.
C5_PreconditionsFirst ==
  /\ C5_PoolStarted => C5_PreconditionsMet
  /\ errs.model # Unset => IsValid(args)
  /\ errs.base # Unset => errs.model = NoErr
  /\ errs.file # Unset => errs.base = NoErr
  /\ ( \/ mainPc # "start" /\ ~IsValid(args)
       \/ errs.model \notin {Unset, NoErr}
       \/ errs.base \notin {Unset, NoErr}
       \/ errs.file \notin {Unset, NoErr} )
     => (mainPc = "exit" /\ exitCode = 1 /\ ~C5_PoolStarted)
  /\ did.check <= 1
  /\ (did.fetch > 0 \/ did.compare > 0) => (did.check = 1 /\ errs.model = NoErr)

\* a worker is running a comparison after all four steps succeeded
C5_Witness ==
  /\ C5_PreconditionsMet
  /\ wpc[0] = "compare"
  /\ sent # <<>>
  /\ did.check = 1

\* the record of a line has done = true
C6_SignalsDone(l) ==
  /\ l.txt = "json"
  /\ "done" \in DOMAIN l.chunk
  /\ l.chunk["done"] = JBool(TRUE)

\* the message content of a line: the string at message.content of a line that
\* parses, and nothing for any other line
C6_MessageContent(l) ==
  IF /\ l.txt = "json"
     /\ "message" \in DOMAIN l.chunk
     /\ l.chunk["message"].t = "object"
     /\ "content" \in DOMAIN l.chunk["message"].m
     /\ l.chunk["message"].m["content"].t = "string"
  THEN l.chunk["message"].m["content"].s
  ELSE <<>>

\* the first line whose record has done = true, or the last line when none has
C6_LastLine(body) ==
  LET dones == {i \in 1..Len(body) : C6_SignalsDone(body[i])}
  IN IF dones = {} THEN Len(body) ELSE CHOOSE i \in dones : \A j \in dones : i <= j

\* C6: for every body, the text compare classifies is the concatenation, in line
\* order, of the message content of the lines up to and including the first
\* done = true record (all lines when there is none), and the lines handed to
\* the parser are exactly the non-blank lines up to that one.
C6_TextUpToDone ==
  (probe.op = "CompareFaviconsChatAPI" /\ probe.called /\ probe.reply.kind = "http") =>
    LET body == probe.reply.body
        last == C6_LastLine(body)
    IN /\ probe.out.answer = Concat([i \in 1..last |-> C6_MessageContent(body[i])])
       /\ probe.out.parsed = {i \in 1..last : body[i].txt # "blank"}

\* "Ye", then "s" with done = true, then a line that is never parsed
C6_Witness ==
  /\ probe.op = "CompareFaviconsChatAPI"
  /\ probe.called
  /\ probe.reply.kind = "http"
  /\ Len(probe.reply.body) = 3
  /\ probe.reply.body[1] = ContentLine(<<"Y", "e">>)
  /\ C6_SignalsDone(probe.reply.body[2])
  /\ probe.reply.body[3] = ContentLine(<<"N", "o">>)
  /\ probe.out.answer = <<"Y", "e", "s">>
  /\ probe.out.parsed = {1, 2}

\* C7: compare returns an error exactly when the request itself failed; with a
\* body in hand it returns none, whatever the body holds, and a line that is
\* blank or does not parse does not keep a later line (up to the first done
\* record) from being parsed.
C7_OnlyRequestErrors ==
  (probe.op = "CompareFaviconsChatAPI" /\ probe.called) =>
    /\ (probe.out.err # NoErr) <=> (probe.reply.kind = "connErr")
    /\ probe.reply.kind = "http" =>
         LET body == probe.reply.body
         IN \A i \in 1..Len(body), j \in 1..Len(body) :
              (i < j /\ j <= C6_LastLine(body) /\ body[i].txt # "json" /\ body[j].txt = "json")
                => j \in probe.out.parsed

\* a line that does not parse, a blank line, then a record: no error, and the
\* record's text is classified
C7_Witness ==
  /\ probe.op = "CompareFaviconsChatAPI"
  /\ probe.called
  /\ probe.reply.kind = "http"
  /\ Len(probe.reply.body) = 3
  /\ probe.reply.body[1] = GarbageLine
  /\ probe.reply.body[2] = BlankLine
  /\ probe.reply.body[3].txt = "json"
  /\ probe.out.err = NoErr
  /\ probe.out.answer = <<"Y", "e", "s">>

\* the text holds the characters Y, e, s next to each other, in this case
C8_HasYes(text) ==
  \E i \in 1..Len(text) :
    /\ i + 2 <= Len(text)
    /\ text[i] = "Y"
    /\ text[i + 1] = "e"
    /\ text[i + 2] = "s"

\* C8: compare returns match = true if and only if the reassembled text holds
\* "Yes", case-sensitively.
C8_MatchIffYes ==
  (probe.op = "CompareFaviconsChatAPI" /\ probe.called) =>
    (probe.out.match <=> C8_HasYes(probe.out.answer))

\* the token arrives in two fragments after a negative one, and matches
C8_Witness ==
  /\ probe.op = "CompareFaviconsChatAPI"
  /\ probe.called
  /\ probe.out.answer = <<"N", "o", "Y", "e", "s">>
  /\ probe.out.match

\* a text with the token in lower case only does not match
C8_LowerCaseWitness ==
  /\ probe.op = "CompareFaviconsChatAPI"
  /\ probe.called
  /\ probe.out.answer = <<"y", "e", "s">>
  /\ ~probe.out.match

\* a name without its ":latest" suffix
C9_Stripped(name) == TrimSuffix(name, LatestSuffix)

\* the listed name equals the configured one exactly, or after stripping the
\* suffix from the listed side, from the configured side, or from both
C9_SameModel(listed, configured) ==
  \/ listed = configured
  \/ C9_Stripped(listed) = configured
  \/ listed = C9_Stripped(configured)
  \/ C9_Stripped(listed) = C9_Stripped(configured)

\* the reply is a 200 with a parseable list that holds the configured model
C9_Listed(reply, configured) ==
  /\ reply.kind = "http"
  /\ reply.status = 200
  /\ reply.body.ok
  /\ \E i \in 1..Len(reply.body.models) : C9_SameModel(reply.body.models[i], configured)

\* C9: the check succeeds if and only if the host answers 200 with a parseable
\* list that holds a model equal to the configured name, exactly or after
\* stripping ":latest" from either side; in every other case it returns an error.
C9_SucceedsIffListed ==
  (probe.op = "CheckModelExists" /\ probe.called) =>
    ((probe.out = NoErr) <=> C9_Listed(probe.reply, probe.Model))

\* C9 for configured names that do not end in ":latest:latest": there the check
\* succeeds exactly when the model is listed
C9_SingleSuffix ==
  (/\ probe.op = "CheckModelExists"
   /\ probe.called
   /\ ~HasSuffix(probe.Model, LatestSuffix \o LatestSuffix)) =>
    ((probe.out = NoErr) <=> C9_Listed(probe.reply, probe.Model))

\* "gemma3:4b" is found in a list that holds "gemma3:4b:latest" only
C9_GemmaFound ==
  /\ probe.op = "CheckModelExists"
  /\ probe.called
  /\ probe.Model = Gemma4b
  /\ probe.reply = Http(200, [ok |-> TRUE, models |-> <<Gemma4b \o LatestSuffix>>])
  /\ probe.out = NoErr

\* "gemma3:9b" is not found in a list of "gemma3:4b" and "gemma3:4b:latest"
C9_GemmaNotFound ==
  /\ probe.op = "CheckModelExists"
  /\ probe.called
  /\ probe.Model = Gemma9b
  /\ probe.reply = Http(200, [ok |-> TRUE, models |-> <<Gemma4b, Gemma4b \o LatestSuffix>>])
  /\ probe.out = [kind |-> "notfound"]

\* the lines of the input, trimmed, without the blank ones
C10_NonBlankLines ==
  LET raw == Split(fs.content, "\n")
      trimmed == [i \in 1..Len(raw) |-> TrimSpace(raw[i])]
  IN SelectSeq(trimmed, LAMBDA l : l # <<>>)

\* the URL ends in one of the image-file suffixes the dispatch loop knows
C10_HasImageSuffix(url) ==
  \E x \in ImageSuffixes :
    /\ Len(url) >= Len(x)
    /\ \A k \in 1..Len(x) : url[Len(url) - Len(x) + k] = x[k]

\* the URL holds the word favicon
C10_HasFavicon(url) ==
  \E i \in 0..(Len(url) - Len(FaviconWord)) :
    \A k \in 1..Len(FaviconWord) : url[i + k] = FaviconWord[k]

\* the job a trimmed line stands for
C10_Job(url) ==
  IF C10_HasImageSuffix(url) \/ C10_HasFavicon(url) THEN url
  ELSE IF url[Len(url)] = "/" THEN url \o FaviconIco
  ELSE url \o SlashFaviconIco

C10_ExpectedJobs == [i \in 1..Len(C10_NonBlankLines) |-> C10_Job(C10_NonBlankLines[i])]

\* the input of the end-to-end scenario and the jobs it gives
C10_Scenario == JoinLines(<<ACom, BComSlash, <<>>, CLogoPng>>)
C10_ScenarioJobs == <<ACom \o SlashFaviconIco, BComSlash \o FaviconIco, CLogoPng>>

Consumed == SubSeq(emitted, 1, Len(emitted) - Len(results))

\* how many Results of a sequence satisfy a test
CountOf(rs, Test(_)) == Cardinality({i \in 1..Len(rs) : Test(rs[i])})

IsError(r) == r.Err # NoErr
IsMatch(r) == r.Err = NoErr /\ r.Match
IsNonMatch(r) == r.Err = NoErr /\ ~r.Match

\* C11, the counters: no step decreases matchCount or errorCount, a step that
\* consumes a Result adds one to errorCount when the Result carries an error,
\* else one to matchCount when it matches, else nothing, and no other step
\* changes either; so they count the errors and the matches consumed.
C11_CountersStep ==
  /\ matchCount' >= matchCount
  /\ errorCount' >= errorCount
  /\ (matchCount' - matchCount) + (errorCount' - errorCount) <= 1
  /\ IF mainPc = "collect" /\ results # <<>> /\ results' = Tail(results)
     THEN LET r == Head(results)
          IN /\ errorCount' = errorCount + (IF IsError(r) THEN 1 ELSE 0)
             /\ matchCount' = matchCount + (IF IsMatch(r) THEN 1 ELSE 0)
     ELSE matchCount' = matchCount /\ errorCount' = errorCount

C11_Counters ==
  /\ [][C11_CountersStep]_vars
  /\ [](/\ matchCount = CountOf(Consumed, IsMatch)
        /\ errorCount = CountOf(Consumed, IsError))

\* C11 as stated: when the result stream has closed and been drained, matches,
\* errors and non-matching successes add up to the total of dispatched jobs the
\* summary reports.
C11_SummaryAddsUp ==
  (mainPc = "done" /\ resultsClosed /\ results = <<>>) =>
    matchCount + errorCount + CountOf(Consumed, IsNonMatch) = jobCount

\* the same with at least one worker configured, which is when it holds
C11_SummaryAddsUpWithWorkers ==
  (mainPc = "done" /\ resultsClosed /\ results = <<>> /\ args.Workers >= 1) =>
    /\ matchCount + errorCount + CountOf(Consumed, IsNonMatch) = jobCount
    /\ Consumed = emitted

\* a finished run that counted one match and one error
C11_Counted ==
  /\ mainPc = "done"
  /\ jobCount = 2
  /\ matchCount = 1
  /\ errorCount = 1

\* a finished run without workers: one job dispatched, nothing counted
C11_Dropped ==
  /\ mainPc = "done"
  /\ args.Workers = 0
  /\ jobCount = 1
  /\ matchCount + errorCount = 0
  /\ jobs # <<>>

\* the URLs of the Results of a sequence that have no error and Match = true
MatchedURLs(rs) == ResultURLs(SelectSeq(rs, IsMatch))

\* a step that consumes a Result with no error and Match = true prints its URL
\* in that step, and writes it to the output file when there is one; a step
\* that consumes any other Result, and every other step, prints nothing
C12_Step ==
  IF results # <<>> /\ results' = Tail(results)
  THEN LET r == Head(results)
       IN IF IsMatch(r)
          THEN /\ stdout' = Append(stdout, r.URL)
               /\ outFile'.open = outFile.open
               /\ outFile'.written = IF outFile.open THEN Append(outFile.written, r.URL)
                                     ELSE outFile.written
          ELSE stdout' = stdout /\ outFile' = outFile
  ELSE stdout' = stdout /\ outFile'.written = outFile.written

\* C12: each matched URL goes to standard output, and to the output file when
\* one is configured, in the step that consumes its Result; so at every moment,
\* the result stream closed or not, what has been printed is exactly the URLs
\* of the consumed Results with no error and Match = true, in arrival order,
\* and the output file holds the same.
C12_ProgressiveOutput ==
  /\ [][C12_Step]_vars
  /\ [](/\ stdout = MatchedURLs(Consumed)
        /\ outFile.written = (IF outFile.open THEN stdout ELSE <<>>)
        /\ (mainPc = "collect" /\ args.Output # <<>>) => outFile.open)

\* a match is on standard output and in the output file while the worker is
\* still busy with the next job and the result stream is open
C12_Witness ==
  /\ ~resultsClosed
  /\ outFile.open
  /\ Len(outFile.written) = 1
  /\ stdout = outFile.written
  /\ \E w \in Configured : wpc[w] \in {"fetch", "compare"}

\* C13 as stated: with -silent nothing but the matched URLs is ever written,
\* on any path: no banner, usage, log, error or summary text.
C13_SilentOnlyMatches == args.Silent => noise = {}

\* what the code does with -silent: the logger is silent and every fatal exit
\* is a bare os.Exit(1), so no log, error or summary text is written; but the
\* banner is written before the flags are parsed, and the usage line does not
\* look at the flag
C13_SilentButBanner ==
  (args.Silent /\ mainPc # "start") =>
    noise = Banner \cup (IF IsValid(args) THEN {} ELSE {"usage"})

\* a silent run that finished and printed a match: the banner was written too
C13_SilentRun ==
  /\ args.Silent
  /\ mainPc = "done"
  /\ stdout # <<>>
  /\ noise = Banner

\* a silent run without -base: banner and usage line, exit status 1
C13_SilentUsage ==
  /\ args.Silent
  /\ mainPc = "exit"
  /\ noise = Banner \cup {"usage"}

\* the bytes a group of four base64 characters stands for
C14_Unbase64Group(g) ==
  <<g[1] * 4 + g[2] \div 16>>
  \o (IF g[3] = 64 THEN <<>> ELSE <<(g[2] % 16) * 16 + g[3] \div 4>>)
  \o (IF g[4] = 64 THEN <<>> ELSE <<(g[3] % 4) * 64 + g[4]>>)

\* the bytes a base64 text stands for
RECURSIVE C14_Unbase64(_)
C14_Unbase64(b64) ==
  IF Len(b64) < 4 THEN <<>>
  ELSE C14_Unbase64Group(SubSeq(b64, 1, 4)) \o C14_Unbase64(SubSeq(b64, 5, Len(b64)))

\* the call was made on a 200 reply whose body decodes as an image
C14_Decoded ==
  /\ probe.op = "DownloadImageAsBase64"
  /\ probe.called
  /\ probe.reply.kind = "http"
  /\ probe.reply.status = 200
  /\ ~ImageDecode(probe.reply.body).err

C14_Converted ==
  /\ C14_Decoded
  /\ ImageDecode(probe.reply.body).format = "ico"
  /\ C14_Unbase64(probe.out.b64) = PngMagic \o <<7, 9>>

\* the bytes are an image of a supported format: they begin as one of the
\* formats does and hold at least one pixel
C15_ValidImage(data) ==
  \E magic \in {PngMagic, IcoMagic, GifMagic, JpegMagic} :
    /\ Len(data) > Len(magic)
    /\ SubSeq(data, 1, Len(magic)) = magic
    /\ \E i \in (Len(magic) + 1)..Len(data) : data[i] < 128

\* the host answers 200 with bytes that are no valid image
C15_BadBytes ==
  /\ probe.op = "fetch"
  /\ probe.reply.kind = "http"
  /\ probe.reply.status = 200
  /\ ~C15_ValidImage(probe.reply.body)

\* C15: when the fetched bytes are not a valid image of a supported format,
\* the empty body included, DownloadImageAsBase64 returns an error and the
\* empty string, and the worker does not compare: it holds no image, makes no
\* comparison request, and once past the fetch has sent the one Result that
\* carries the decoding error.
C15_DecodeFailure ==
  C15_BadBytes =>
    /\ DownloadImageAsBase64(probe.reply) = [b64 |-> <<>>, err |-> [kind |-> "decode"]]
    /\ wpc[0] \in {"fetch", "recv"}
    /\ wicon[0] = <<>>
    /\ did.compare = 0
    /\ wpc[0] = "recv" =>
         emitted = << [URL |-> ACom \o SlashFaviconIco, Match |-> FALSE,
                       Err |-> [kind |-> "decode"]] >>

\* and only a valid image reaches the comparison
C15_ComparedOnlyValid ==
  (probe.op = "fetch" /\ (wpc[0] = "compare" \/ did.compare > 0)) =>
    /\ probe.reply.kind = "http"
    /\ probe.reply.status = 200
    /\ C15_ValidImage(probe.reply.body)

\* the host answered 200 with an empty body and the worker sent the error
C15_Witness ==
  /\ C15_BadBytes
  /\ probe.reply.body = <<>>
  /\ wpc[0] = "recv"
  /\ Len(emitted) = 1
  /\ emitted[1].Err = [kind |-> "decode"]

\* a format's first bytes followed by no pixel are no image either
C15_NoPixel ==
  /\ C15_BadBytes
  /\ probe.reply.body = PngMagic \o <<200>>
  /\ wpc[0] = "recv"

\* the workers that hold a job: received, and its Result not yet sent
C16_Busy == {w \in WorkerIds : wpc[w] \in {"delay", "fetch", "compare"}}

\* the multiset of the URLs the busy workers hold
RECURSIVE C16_InHand(_)
C16_InHand(ws) ==
  IF ws = {} THEN EmptyBag
  ELSE LET w == CHOOSE v \in ws : TRUE
       IN SetToBag({wjob[w]}) (+) C16_InHand(ws \ {w})

\* how many queue entries have been received
C16_Received == Len(sent) - Len(jobs)

\* a step that takes an entry off the queue takes the head, gives it to exactly
\* one worker that was at the receive, and changes no other worker
C16_Step ==
  jobs' # jobs /\ Len(jobs') <= Len(jobs) =>
    /\ jobs # <<>>
    /\ jobs' = Tail(jobs)
    /\ \E w \in WorkerIds :
         /\ wpc[w] = "recv"
         /\ wpc'[w] \in {"delay", "fetch"}
         /\ wjob'[w] = Head(jobs).URL
         /\ \A v \in WorkerIds \ {w} : wpc'[v] = wpc[v] /\ wjob'[v] = wjob[v]

\* C16: every entry of the job queue is received exactly once, by exactly one
\* worker.  The queue holds the entries sent and not yet received, in order;
\* every received entry is, counted with multiplicity, either in the hands of
\* one worker or answered by one Result; each receive takes the head for one
\* worker; and when at least one worker was configured and all have returned,
\* nothing is left in the queue.
C16_DequeuedOnce ==
  /\ [][C16_Step]_vars
  /\ [](/\ C16_Received >= 0
        /\ jobs = [i \in 1..Len(jobs) |-> [URL |-> sent[C16_Received + i]]]
        /\ C16_InHand(C16_Busy) (+) BagOfSeq(ResultURLs(emitted))
             = BagOfSeq(SubSeq(sent, 1, C16_Received))
        /\ (args.Workers >= 1 /\ \A w \in Configured : wpc[w] = "exited") =>
             jobs = <<>> /\ jobsClosed /\ C16_Received = jobCount)

\* two workers hold the two entries of the queue, one each, at the same time
C16_Witness ==
  /\ args.Workers = 2
  /\ Len(sent) = 2
  /\ jobs = <<>>
  /\ C16_Busy = {0, 1}
  /\ {wjob[0], wjob[1]} = {sent[1], sent[2]}
  /\ sent[1] # sent[2]

\* two entries with the same URL are two jobs: both workers hold one
C16_SameURLTwice ==
  /\ Len(sent) = 2
  /\ sent[1] = sent[2]
  /\ jobs = <<>>
  /\ C16_Busy = {0, 1}

\* the stage of the job a worker holds: Fetching (the delay before the request
\* and the call that fetches and normalizes) and Comparing; at the receive the
\* worker holds no job
C17_Stage(pc) == IF pc \in {"delay", "fetch"} THEN 1 ELSE IF pc = "compare" THEN 2 ELSE 0

\* the Result ends its job as Failed, Matched or NotMatched
C17_Terminal(r) == IF IsError(r) THEN "Failed" ELSE IF r.Match THEN "Matched" ELSE "NotMatched"

\* the Result's job got as far as the comparison request
C17_WasCompared(r) == r.Err = NoErr \/ r.Err.kind = "compare"

\* one step, seen from the job worker w holds
C17_JobStep(w) ==
  LET before == C17_Stage(wpc[w])
      after == C17_Stage(wpc'[w])
      fetched == wpc[w] = "fetch" /\ wpc'[w] # "fetch"
      compared == wpc[w] = "compare" /\ wpc'[w] # "compare"
  IN /\ (before > 0 /\ after > 0) => (after >= before /\ wjob'[w] = wjob[w])
     /\ (before = 0 /\ after > 0) =>
          (after = 1 /\ jobs # <<>> /\ jobs' = Tail(jobs) /\ wjob'[w] = Head(jobs).URL)
     /\ (before > 0 /\ after = 0) =>
          /\ wpc'[w] = "recv"
          /\ emitted' = Append(emitted, emitted'[Len(emitted')])
          /\ emitted'[Len(emitted')].URL = wjob[w]
          /\ C17_WasCompared(emitted'[Len(emitted')]) <=> before = 2
     /\ (before = 1 /\ after = 2) => (fetched /\ wicon'[w] # <<>>)
     /\ fetched => did'.fetch = did.fetch + 1
     /\ compared => did'.compare = did.compare + 1

\* one step, seen from the whole run: the Results sent are never altered or
\* withdrawn, and a request is made only by a job's move out of its stage
C17_RunStep ==
  /\ Len(emitted') >= Len(emitted)
  /\ SubSeq(emitted', 1, Len(emitted)) = emitted
  /\ did'.compare - did.compare =
       Cardinality({w \in WorkerIds : wpc[w] = "compare" /\ wpc'[w] # "compare"})
  /\ mainPc' = mainPc =>
       did'.fetch - did.fetch =
         Cardinality({w \in WorkerIds : wpc[w] = "fetch" /\ wpc'[w] # "fetch"})

\* the requests made so far, counted against the jobs
C17_Requests ==
  /\ did.compare = CountOf(emitted, C17_WasCompared)
  /\ did.fetch - (IF errs.base = Unset THEN 0 ELSE 1)
       = Len(emitted) + Cardinality({w \in WorkerIds : wpc[w] = "compare"})
  /\ \A w \in WorkerIds : wpc[w] = "compare" =>
       ~ImageDecode(C14_Unbase64(wicon[w])).err

\* C17: a job only moves forward, Queued, Fetching and Normalizing, Comparing,
\* then Matched, NotMatched or Failed.  The worker that holds it never takes
\* it back to an earlier stage; its end is one Result that is never altered;
\* it causes one fetch request and at most one comparison request, so that the
\* requests made equal the jobs that passed the stage; and the comparison is
\* requested only with the image that the fetch and the normalization gave.
C17_ForwardOnly ==
  /\ [][C17_RunStep /\ \A w \in WorkerIds : C17_JobStep(w)]_vars
  /\ []C17_Requests

\* one job went through every stage and matched, the other failed at the
\* fetch: two fetch requests for the candidates, one comparison request
C17_Witness ==
  /\ Len(emitted) = 2
  /\ C17_Terminal(emitted[1]) = "Matched"
  /\ C17_Terminal(emitted[2]) = "Failed"
  /\ ~C17_WasCompared(emitted[2])
  /\ did.compare = 1
  /\ did.fetch = 3

\* a job ended NotMatched
C17_NotMatched == Len(emitted) >= 1 /\ C17_Terminal(emitted[1]) = "NotMatched"

\* the workers in their delay
C18_Sleeping == {w \in WorkerIds : wpc[w] = "delay"}

\* one step, seen from worker w
C18_WorkerStep(w) ==
  /\ (wpc[w] = "recv" /\ wpc'[w] \notin {"recv", "exited"}) =>
       wpc'[w] = (IF args.DelayMs > 0 THEN "delay" ELSE "fetch")
  /\ (wpc[w] # "fetch" /\ wpc'[w] = "fetch") =>
       IF args.DelayMs > 0
       THEN wpc[w] = "delay" /\ did'.slept = did.slept + args.DelayMs
       ELSE wpc[w] = "recv" /\ did'.slept = did.slept
  /\ (wpc[w] = "delay" /\ wpc'[w] # "delay") =>
       /\ wpc'[w] = "fetch"
       /\ wjob'[w] = wjob[w]
       /\ \A v \in WorkerIds \ {w} : wpc'[v] = wpc[v]
       /\ UNCHANGED << mainPc, jobs, jobsClosed, results, resultsClosed, wg, closerPc >>

\* time is slept only by a worker that leaves its delay
C18_RunStep ==
  did'.slept # did.slept =>
    Cardinality({w \in WorkerIds : wpc[w] = "delay" /\ wpc'[w] = "fetch"}) = 1

\* the time slept so far, counted against the jobs and the fetch requests
C18_Slept ==
  /\ did.slept = args.DelayMs * (C16_Received - Cardinality(C18_Sleeping))
  /\ did.slept = args.DelayMs *
       (did.fetch - (IF errs.base = Unset THEN 0 ELSE 1)
        + Cardinality({w \in WorkerIds : wpc[w] = "fetch"}))
  /\ args.DelayMs = 0 => C18_Sleeping = {}
  /\ mainPc \in {"start", "check", "base", "read", "spawn"} => did.slept = 0

\* C18: with a positive delay, the worker that received a job sleeps that long
\* once, right before it fetches the job, for every job and not once per
\* worker; its sleep changes nothing but its own position; with delay 0 no
\* worker is ever in a delay; and nothing is slept before the reference image
\* is fetched.
C18_DelayPerJob ==
  /\ [][C18_RunStep /\ \A w \in WorkerIds : C18_WorkerStep(w)]_vars
  /\ []C18_Slept

\* the only worker slept before each of its two jobs
C18_Witness ==
  /\ args.Workers = 1
  /\ args.DelayMs > 0
  /\ Len(emitted) = 2
  /\ did.slept = 2 * args.DelayMs

\* worker 0 is still in the delay of the first job while the other worker has
\* slept, fetched and answered the second
C18_OthersGoOn ==
  /\ args.DelayMs > 0
  /\ wpc[0] = "delay"
  /\ wjob[0] = sent[1]
  /\ Len(emitted) = 1
  /\ did.slept = args.DelayMs

\* with delay 0 two jobs were fetched and nothing was slept
C18_NoDelay ==
  /\ args.DelayMs = 0
  /\ Len(emitted) = 2
  /\ did.slept = 0

\* the input lines not yet looked at that will give a job
C19_JobsToCome ==
  Cardinality({i \in lineIdx..Len(lines) : TrimSpace(lines[i]) # <<>>})

\* the producer is at the send of a job
C19_ProducerAtSend ==
  mainPc = "send" /\ lineIdx <= Len(lines) /\ TrimSpace(lines[lineIdx]) # <<>>

\* C19: no send ever blocks.  Both channels have the capacity of the number of
\* input lines, which covers the jobs: the job queue has room for every job
\* still to come, so the producer at a send is never held up and closes the
\* queue whatever the workers do; the result queue has room for the Result of
\* every job received or still to be received, so a worker at its send is
\* never held up, although the aggregator consumes only after the dispatch;
\* and a run that has not ended always has a step to take.
C19_SendsNeverBlock ==
  /\ mainPc \notin {"start", "check", "base", "read"} => chanCap = Len(lines)
  /\ Len(jobs) + C19_JobsToCome <= chanCap
  /\ Len(sent) + C19_JobsToCome <= chanCap
  /\ C19_ProducerAtSend => Len(jobs) < chanCap
  /\ Len(results) + Cardinality(C16_Busy) + Len(jobs) + C19_JobsToCome <= chanCap
  /\ \A w \in C16_Busy : Len(results) < chanCap /\ ~resultsClosed
  /\ mainPc = "collect" => jobsClosed
  /\ Alive => ENABLED Next

\* the producer has sent both jobs and closed the queue while no worker has
\* received anything yet
C19_Witness ==
  /\ jobsClosed
  /\ Len(jobs) = 2
  /\ chanCap = 2
  /\ args.Workers = 2
  /\ \A w \in Configured : wpc[w] = "recv"

\* both Results are in the result queue, filling it, before the dispatch is
\* over and so before the aggregator consumes anything
C19_ResultsBeforeCollect ==
  /\ mainPc = "send"
  /\ Len(results) = 2
  /\ chanCap = 2

\* an empty file is one blank line: capacity 1 and no job
C19_SpareCapacity ==
  /\ jobsClosed
  /\ chanCap = 1
  /\ jobCount = 0

\* the step is a send on jobs, a send on results, close(jobs), close(results)
C20_SendsJob == Len(sent') > Len(sent)
C20_SendsResult == Len(emitted') > Len(emitted)
C20_ClosesJobs == mainPc = "send" /\ mainPc' # "send"
C20_ClosesResults == closerPc = "wait" /\ closerPc' # "wait"

\* one step: a send finds its channel open and leaves it open, a close finds
\* its channel open, a channel changes to closed only by its close and never
\* back; jobs is closed by the producer when no line is left, results by the
\* waiting goroutine when the WaitGroup is at zero
C20_Step ==
  /\ C20_SendsJob => ~jobsClosed /\ ~jobsClosed'
  /\ C20_SendsResult => ~resultsClosed /\ ~resultsClosed'
  /\ C20_ClosesJobs => ~jobsClosed /\ jobsClosed' /\ lineIdx > Len(lines)
  /\ C20_ClosesResults => ~resultsClosed /\ resultsClosed' /\ wg = 0 /\ jobsClosed
  /\ jobsClosed' # jobsClosed => C20_ClosesJobs
  /\ resultsClosed' # resultsClosed => C20_ClosesResults
  /\ jobsClosed => jobsClosed'
  /\ resultsClosed => resultsClosed'

\* once a channel is closed nothing can send on it or close it again: the
\* producer is past its loop and the waiting goroutine is started only then;
\* the WaitGroup counts the workers that have not returned, so at zero no
\* worker is left to send, and the waiting goroutine is done
C20_Closed ==
  /\ jobsClosed <=> mainPc \in {"outfile", "collect", "done"} \/ (mainPc = "exit" /\ closerPc # "none")
  /\ jobsClosed => lineIdx > Len(lines) /\ Len(sent) = jobCount /\ closerPc # "none"
  /\ resultsClosed <=> closerPc = "done"
  /\ wg = Cardinality({w \in WorkerIds : wpc[w] \notin {"none", "exited"}})
  /\ resultsClosed => \A w \in WorkerIds : wpc[w] \in {"none", "exited"}

\* C20: nothing is sent on a closed channel and no channel is closed twice:
\* jobs is closed once, by the producer, after its last send; results is
\* closed once, after the WaitGroup reached zero, when no worker can send.
C20_NoSendOnClosed ==
  /\ [][C20_Step]_vars
  /\ []C20_Closed

\* both channels are closed after two workers sent their Results, which wait
\* in the closed result stream for the aggregator
C20_Witness ==
  /\ jobsClosed
  /\ resultsClosed
  /\ closerPc = "done"
  /\ wg = 0
  /\ args.Workers = 2
  /\ Len(results) = 2
  /\ mainPc = "collect"

\* no Result sent by a worker carries an error together with Match = true
C21_ErrorHasNoMatch ==
  \A i \in 1..Len(emitted) : IsError(emitted[i]) => ~emitted[i].Match

\* a step that consumes a Result with an error adds one to errorCount and
\* nothing else: matchCount, standard output and the output file stay
C21_Step ==
  (mainPc = "collect" /\ results # <<>> /\ results' = Tail(results)
     /\ IsError(Head(results))) =>
    /\ errorCount' = errorCount + 1
    /\ matchCount' = matchCount
    /\ stdout' = stdout
    /\ outFile' = outFile

\* what was counted and printed, against the Results consumed: a Result is a
\* match by its flag alone, the errors are apart from the matches, and no URL
\* printed or written belongs to a Result with an error only
C21_Counted ==
  /\ matchCount = Cardinality({i \in 1..Len(Consumed) : Consumed[i].Match})
  /\ errorCount = Cardinality({i \in 1..Len(Consumed) : Consumed[i].Err # NoErr})
  /\ matchCount + errorCount <= Len(Consumed)
  /\ Len(stdout) = matchCount
  /\ Len(outFile.written) = (IF outFile.open THEN matchCount ELSE 0)
  /\ \A i \in 1..Len(stdout) :
       \E j \in 1..Len(Consumed) : Consumed[j].URL = stdout[i] /\ ~IsError(Consumed[j])

\* C21: a Result that carries an error has Match = false, and the aggregator
\* counts it as an error only: not as a match, and its URL is neither printed
\* nor written to the output file.
C21_ErrorOnly ==
  /\ [][C21_Step]_vars
  /\ [](C21_ErrorHasNoMatch /\ C21_Counted)

\* with an output file open, the aggregator has consumed the Result of a failed
\* comparison request: one error, no match, nothing printed, nothing written
C21_Witness ==
  /\ outFile.open
  /\ Len(Consumed) = 1
  /\ Consumed[1].Err = [kind |-> "compare"]
  /\ errorCount = 1
  /\ matchCount = 0
  /\ stdout = <<>>
  /\ outFile.written = <<>>

\* the order of the two tests, on any Result: the error is tested first, so a
\* Result that carried an error and Match = true would be an error only
C21_ErrorBeforeMatch ==
  /\ errorCount = CountOf(Consumed, IsError)
  /\ matchCount = CountOf(Consumed, IsMatch)
  /\ stdout = MatchedURLs(Consumed)
  /\ outFile.written = (IF outFile.open THEN MatchedURLs(Consumed) ELSE <<>>)

\* a Result with both an error and Match = true was consumed as an error
C21_BothFlags ==
  /\ Len(Consumed) = 1
  /\ Consumed[1].Err # NoErr
  /\ Consumed[1].Match
  /\ errorCount = 1
  /\ matchCount = 0
  /\ stdout = <<>>

\* the candidate list is in hand and the worker count is 0 or negative
C22_NoWorkers == mainPc = "spawn" /\ args.Workers <= 0

\* main returned with the summary Matches: 0, Errors: 0, Total: N, the N jobs
\* still in the closed job queue and the result stream closed without a Result
C22_Summary ==
  /\ mainPc = "done"
  /\ exitCode = 0
  /\ "summary" \in noise
  /\ matchCount = 0
  /\ errorCount = 0
  /\ jobsClosed
  /\ Len(jobs) = jobCount
  /\ resultsClosed
  /\ emitted = <<>>
  /\ stdout = <<>>

\* with a worker count of 0 or less nothing is ever started or processed: no
\* worker leaves its initial position, the WaitGroup stays at zero, every job
\* sent stays in the job queue, no candidate is fetched or compared and no
\* Result exists; and the goroutine that waits for the workers can close the
\* result stream as soon as it is started
C22_NothingProcessed ==
  args.Workers <= 0 =>
    /\ IsValid(args)
    /\ spawned = 0
    /\ \A w \in WorkerIds : wpc[w] = "none"
    /\ wg = 0
    /\ jobs = [i \in 1..Len(sent) |-> [URL |-> sent[i]]]
    /\ Len(sent) = jobCount
    /\ emitted = <<>>
    /\ did.compare = 0
    /\ did.fetch <= 1
    /\ matchCount = 0 /\ errorCount = 0
    /\ (closerPc = "wait" /\ Alive) => ENABLED CloseResults

C22_Negative == C22_Summary /\ args.Workers < 0 /\ jobCount = 1

\* -workers 0 with an output file that cannot be created: exit status 1
C22_NoSummary == C3_OutFileFailed /\ args.Workers = 0

\* the inference host answers the chat request with a status other than 200
C23_BadStatus ==
  /\ probe.op = "compare"
  /\ probe.reply.kind = "http"
  /\ probe.reply.status # 200

\* the text the records of a body reassemble to holds "Yes"
C23_BodySaysYes(body) ==
  C8_HasYes(Concat([i \in 1..C6_LastLine(body) |-> C6_MessageContent(body[i])]))

\* C23: the status of the chat reply is not examined.  With a status other
\* than 200 compare returns no error and the verdict of the body, the same as
\* for that body with status 200; the worker's Result has no error and
\* Match = true exactly when the body's records reassemble to a text holding
\* "Yes"; and the aggregator counts no error: the summary has Errors = 0 and
\* Matches = 1 or 0 by that verdict.
C23_StatusIgnored ==
  C23_BadStatus =>
    LET body == probe.reply.body
        yes == C23_BodySaysYes(body)
        out == CompareFaviconsChatAPI(probe.reply)
    IN /\ out.err = NoErr
       /\ out.match = yes
       /\ out = CompareFaviconsChatAPI(Http(200, body))
       /\ errorCount = 0
       /\ emitted # <<>> =>
            emitted = << [URL |-> ACom \o SlashFaviconIco, Match |-> yes, Err |-> NoErr] >>
       /\ mainPc = "done" =>
            /\ Len(emitted) = 1
            /\ matchCount = (IF yes THEN 1 ELSE 0)
            /\ stdout = (IF yes THEN << ACom \o SlashFaviconIco >> ELSE <<>>)

\* status 500 with a body that does not parse: the run ended with the job a
\* successful non-match, no error counted
C23_Witness ==
  /\ C23_BadStatus
  /\ probe.reply.status = 500
  /\ probe.reply.body = << GarbageLine >>
  /\ mainPc = "done"
  /\ emitted = << [URL |-> ACom \o SlashFaviconIco, Match |-> FALSE, Err |-> NoErr] >>
  /\ errorCount = 0
  /\ matchCount = 0

\* status 500 with a body that says Yes: the job is a match
C23_MatchOnBadStatus ==
  /\ C23_BadStatus
  /\ C23_BodySaysYes(probe.reply.body)
  /\ mainPc = "done"
  /\ matchCount = 1
  /\ errorCount = 0

=============================================================================
